---- MODULE Spec2Model ----
(***************************************************************************)
(* Model of tritonbench's fused attention kernels                          *)
(* (tritonbench/kernels/triton_fused_attention.py): the candidate pools    *)
(* and their filter, the autotuned dispatch of _attention_opt.forward,     *)
(* the forward tile loops and the backward sweeps.                         *)
(***************************************************************************)
EXTENDS Integers, Sequences, FiniteSets, TLC

(***************************** bounds ***************************************)
\* Sequence lengths of the host-level model are 64 * k, k in 1..MaxCtxBlocks.
MaxCtxBlocks == 2
\* Forward / backward calls per behaviour of the host-level model.
MaxCalls == 2
\* Measured latencies are drawn from 1..MaxLatency.
MaxLatency == 2
\* Sequence lengths of the forward programs are 64 * k, k in 1..MaxFwdCtxBlocks.
MaxFwdCtxBlocks == 4
\* Sequence lengths of the backward programs are 128 * k, k in 1..MaxBwdCtxBlocks.
MaxBwdCtxBlocks == 3
\* Batch-heads (Z * H) of a kernel grid.
NumBatchHeads == 2
\* Concurrent callers of one autotuned kernel.
NumCallers == 2

(************************** program constants *******************************)
\* keep(): the tile-area threshold 128 * 128 and the rejected warp count.
KeepTileSide == 128
KeepWarps == 8
\* backward(): PRE_BLOCK.
PRE_BLOCK == 128
\* Granularity of the modelled sequence lengths: the smallest tile size.
CtxUnit == 64
\* backward(): the tile sizes it passes to _attn_bwd.
BLOCK_M1 == 32
BLOCK_N1 == 128
BLOCK_M2 == 128
BLOCK_N2 == 32
BLK_SLICE_FACTOR == 2

VARIABLES
    WITH_COMPPIPE,  \* truthiness of os.getenv("ENABLE_COMPPIPE")
    PEEL_LAST,      \* truthiness of os.getenv("PEEL_LAST_ITER")
    has_warp_spec,  \* hasattr(tl, "async_task")
    pools,          \* per kernel: the configurations its autotuner was given
    cache,          \* per autotuned kernel: its cache, a set of <<key, pool index>>
    firstCfg,       \* history: per kernel and N_CTX, the first configuration stored
    hpc,            \* position of the host: "idle", "tune", "launch", "saved"
    args,           \* history: the shape arguments of the last call
    call,           \* arguments of the forward call in progress / last saved
    tune,           \* the autotuner's benchmark loop: [i, best, bestLat, measured]
    cfg,            \* index (in the variant's filtered pool) of the config to launch
    launched,       \* history: the kernels the current call compiled and ran
    result,         \* what the last call gave its caller
    calls,          \* number of calls made so far
    callers,        \* concurrent callers of one autotuned kernel
    fwd,            \* one program of a forward kernel's grid
    bwd,            \* one program of the backward kernel's grid
    ws,             \* one program of a warp-specialized forward kernel
    stream,         \* the two kernel launches of one backward call
    grid,           \* the programs of one forward launch and the memory they write
    bench,          \* one benchmark run of the addmm operator over its candidates
    row,            \* the running softmax state of one query row of a forward program
    desc_helper     \* the TMA descriptors of one call of forward

envVars == <<WITH_COMPPIPE, PEEL_LAST, has_warp_spec, pools>>
vars == <<WITH_COMPPIPE, PEEL_LAST, has_warp_spec, pools, cache, firstCfg, hpc, args,
          call, tune, cfg, launched, result, calls, callers, fwd, bwd, ws, stream, grid, bench, row, desc_helper>>
hostVars == <<cache, firstCfg, hpc, args, call, tune, cfg, launched, result, calls>>
progVars == <<callers, fwd, bwd, ws, stream, grid, bench, row, desc_helper>>
\* What the steps of each kind of program leave alone.
fwdRest == <<envVars, hostVars, callers, bwd, ws, stream, grid, bench, row, desc_helper>>
bwdRest == <<envVars, hostVars, callers, fwd, ws, stream, grid, bench, row, desc_helper>>
concRest == <<fwd, bwd, ws, stream, grid, bench, row, desc_helper>>

(************************** candidate pools *********************************)
\* schedList as line 333 leaves it.
schedListCompPipe ==
    IF WITH_COMPPIPE THEN <<"default", "FA_firstDot", "FA_secondDot">>
    ELSE <<"default">>

\* Mutant: line 335 missing, PEEL_LAST does not narrow the schedules.
schedList_noPeel == schedListCompPipe

\* schedList after line 335.
schedList ==
    IF PEEL_LAST THEN <<"FA_secondDot">> ELSE schedListCompPipe

IsCompPipeSched(sched) == sched = "FA_firstDot" \/ sched = "FA_secondDot"

\* triton.Config(kwargs, num_stages, num_warps, ...); a warp-spec field that
\* the constructor call does not pass is 0.
Config(BM, BN, tma, sched, stages, warps, buf, grp, dec, inc) ==
    [BLOCK_M |-> BM, BLOCK_N |-> BN, ENABLE_TMA |-> tma, LOOP_SCHEDULE |-> sched,
     num_stages |-> stages, num_warps |-> warps,
     num_buffers_warp_spec |-> buf, num_consumer_groups |-> grp,
     reg_dec_producer |-> dec, reg_inc_consumer |-> inc]

configsOpt ==
    [k \in 1..Len(schedList) |->
        Config(128, 128, FALSE, schedList[k],
               IF IsCompPipeSched(schedList[k]) THEN 4 ELSE 3, 8, 0, 0, 0, 0)]

configsTma ==
    [k \in 1..Len(schedList) |->
        Config(128, 128, TRUE, schedList[k],
               IF IsCompPipeSched(schedList[k]) THEN 4 ELSE 3, 8, 0, 0, 0, 0)]

\* for sched in schedList ... for dec, inc in [(24, 240), (40, 232)]
configsWS ==
    [k \in 1..(2 * Len(schedList)) |->
        LET sched == schedList[((k - 1) \div 2) + 1]
            di == <<<<24, 240>>, <<40, 232>>>>[((k - 1) % 2) + 1]
            stages == IF IsCompPipeSched(sched) THEN 2 ELSE 0
        IN IF has_warp_spec
           THEN Config(128, 128, FALSE, sched, stages, 4, 2, 2, di[1], di[2])
           ELSE Config(128, 128, FALSE, sched, stages, 4, 0, 0, 0, 0)]

\* for BM in [64, 128] for BN in [64, 128] for s in [3, 4, 7] for w in [4, 8]
configsOrig ==
    [k \in 1..24 |->
        LET BM == <<64, 128>>[((k - 1) \div 12) + 1]
            BN == <<64, 128>>[(((k - 1) \div 6) % 2) + 1]
            s == <<3, 4, 7>>[(((k - 1) \div 2) % 3) + 1]
            w == <<4, 8>>[((k - 1) % 2) + 1]
        IN Config(BM, BN, FALSE, "default", s, w, 0, 0, 0, 0)]

configsTmaWS ==
    [k \in 1..Len(schedList) |->
        LET sched == schedList[k]
            stages == IF IsCompPipeSched(sched) THEN 2 ELSE 0
        IN IF has_warp_spec
           THEN Config(128, 128, TRUE, sched, stages, 4, 2, 2, 24, 240)
           ELSE Config(128, 128, TRUE, sched, stages, 4, 0, 0, 0, 0)]

\* Variant of keep: the tile area alone decides.
keep_areaOnly(conf) ==
    ~(conf.BLOCK_M * conf.BLOCK_N < KeepTileSide * KeepTileSide)

\* Mutant: "or" for "and" in keep's condition.
keep_or(conf) ==
    ~(conf.BLOCK_M * conf.BLOCK_N < KeepTileSide * KeepTileSide
      \/ conf.num_warps = KeepWarps)

\* keep(conf), lines 505-510.
keep(conf) ==
    IF conf.BLOCK_M * conf.BLOCK_N < KeepTileSide * KeepTileSide
       /\ conf.num_warps = KeepWarps
    THEN FALSE
    ELSE TRUE

\* The variants of forward's dispatch and the unfiltered list each kernel's
\* decorator names.
Variants == {"base", "ws", "opt", "tma", "tma_ws"}

RawPool(variant) ==
    CASE variant = "base" -> configsOrig
      [] variant = "ws" -> configsWS
      [] variant = "opt" -> configsOpt
      [] variant = "tma" -> configsTma
      [] variant = "tma_ws" -> configsTmaWS

\* list(filter(keep, configsX)): the pool a decorator hands to triton.autotune
\* when the module is imported.
FilteredPool(variant) == SelectSeq(RawPool(variant), keep)

\* The pool the autotuner of a variant's kernel holds.
Pool(variant) == pools[variant]

\* Variant of EnableWS: every kernel is passed ENABLE_WS=True.
EnableWS_always(variant) == TRUE

\* ENABLE_WS as forward passes it to each kernel.
EnableWS(variant) == variant \in {"ws", "tma_ws"}

(************************ host: forward and backward ************************)
\* Sequence lengths and head dimensions the callers of the model pass.
NCtxValues == {CtxUnit * k : k \in 1..MaxCtxBlocks}
HeadDims == {16, 32, 64, 128, 256}
HeadDimChoices == {48, 64, 128}
VariantChoices == Variants \cup {"other"}

NoCall == [baseVariant |-> "none", N_CTX |-> 0, HEAD_DIM |-> 0]
NoTune == [i |-> 0, best |-> 0, bestLat |-> 0, measured |-> {}]

\* A latency no measurement returns: float("inf").
INF == MaxLatency + 1

\* Mutant: the membership assertion of line 1622 is missing.
FwdShapeOk_noSet(hq, hk, hv) == hq = hk /\ hk = hv

\* forward, lines 1621-1622: the two shape assertions.
FwdShapeOk(hq, hk, hv) == (hq = hk /\ hk = hv) /\ hk \in HeadDims

\* backward, lines 1902-1903 and 1916: the assertions before any launch.
BwdArgsOk(contiguous, sameStrides, n) ==
    contiguous /\ sameStrides /\ n % PRE_BLOCK = 0

\* forward, line 1624.
Stage_causalOnly(causal) == 3
Stage(causal) == IF causal THEN 3 ELSE 1

\* Mutant: HEAD_DIM is part of the key.
AutotuneKey_withHeadDim(c) == <<c.N_CTX, c.HEAD_DIM>>

\* The autotuner's key, key=["N_CTX"] of every @triton.autotune decorator.
AutotuneKey(c) == <<c.N_CTX>>

\* The autotuner's cache of one kernel: membership and lookup by key.
CacheHas(variant, key) == \E e \in cache[variant] : e[1] = key
CacheGet(variant, key) == (CHOOSE e \in cache[variant] : e[1] = key)[2]

\* tl.static_assert(BLOCK_N <= HEAD_DIM), first statement of every kernel.
StaticAssertOk(conf, headDim) == conf.BLOCK_N <= headDim

\* The kernel each variant launches.
Kernel(variant) ==
    CASE variant = "base" -> "_attn_fwd"
      [] variant = "ws" -> "_attn_fwd_ws"
      [] variant = "opt" -> "_attn_fwd_opt"
      [] variant = "tma" -> "_attn_fwd_tma"
      [] variant = "tma_ws" -> "_attn_fwd_tma_ws"

\* One kernel launch as `launched` records it: the kernel, whether the
\* autotuner's benchmark or the call proper launched it, whether its static
\* assertion held (the kernel ran) or failed (it did not compile), the
\* configuration and the ENABLE_WS argument it was launched with.
Run(kernel, conf, c, how) ==
    [kernel |-> kernel, how |-> how, ran |-> StaticAssertOk(conf, c.HEAD_DIM),
     conf |-> conf, ENABLE_WS |-> EnableWS(c.baseVariant)]

\* The values backward returns, line 1957, and forward's inputs, line 1616.
BwdReturn == <<"dq", "dk", "dv", "None", "None">>
FwdInputs == <<"q", "k", "v", "causal", "sm_scale", "baseVariant">>

\* The program variables while no program of that kind is modelled.
NoFwd == [pc |-> "none"]
NoBwd == [pc |-> "none"]
NoWs == [pc |-> "none"]
NoStream == [pc |-> "none"]
NoGrid == [pc |-> "none"]
NoBench == [pc |-> "none"]
NoRow == [pc |-> "none"]
NoDesc == [pc |-> "none"]

Init ==
    /\ WITH_COMPPIPE \in BOOLEAN
    /\ PEEL_LAST \in BOOLEAN
    /\ has_warp_spec \in BOOLEAN
    /\ pools = [v \in Variants |-> FilteredPool(v)]
    /\ cache = [v \in Variants |-> {}]
    /\ firstCfg = [v \in Variants |-> [n \in NCtxValues |-> 0]]
    /\ hpc = "idle"
    /\ args = <<"none">>
    /\ call = NoCall
    /\ tune = NoTune
    /\ cfg = 0
    /\ launched = {}
    /\ result = <<"none">>
    /\ calls = 0
    /\ callers = <<>>
    /\ fwd = NoFwd
    /\ bwd = NoBwd
    /\ ws = NoWs
    /\ stream = NoStream
    /\ grid = NoGrid
    /\ bench = NoBench
    /\ row = NoRow
    /\ desc_helper = NoDesc

\* forward up to the kernel call: the assertions (1621-1622), then the
\* dispatch on baseVariant (1711-1890) into the kernel's autotuner, which
\* looks its key up when its pool holds more than one configuration.
Forward(hq, hk, hv, n, variant) ==
    /\ hpc \in {"idle", "saved"}
    /\ calls < MaxCalls
    /\ calls' = calls + 1
    /\ args' = <<"forward", hq, hk, hv>>
    /\ launched' = {}
    /\ tune' = NoTune
    /\ UNCHANGED <<envVars, progVars, cache, firstCfg>>
    /\ IF ~FwdShapeOk(hq, hk, hv)
       THEN /\ hpc' = "idle"
            /\ call' = NoCall
            /\ cfg' = 0
            /\ result' = <<"AssertionError">>
       ELSE LET c == [baseVariant |-> variant, N_CTX |-> n, HEAD_DIM |-> hk]
            IN /\ call' = c
               /\ result' = <<"none">>
               /\ IF variant \notin Variants
                  THEN /\ hpc' = "launch"
                       /\ cfg' = 0
                  ELSE IF Len(Pool(variant)) > 1
                  THEN IF CacheHas(variant, AutotuneKey(c))
                       THEN /\ hpc' = "launch"
                            /\ cfg' = CacheGet(variant, AutotuneKey(c))
                       ELSE /\ hpc' = "tune"
                            /\ cfg' = 0
                  ELSE /\ hpc' = "launch"
                       /\ cfg' = 1

\* The autotuner benchmarks the next candidate of the pool: a candidate whose
\* static assertion fails counts as infinitely slow, any other runs and gets a
\* measured latency; the first candidate with the lowest latency is the best.
BenchConfig ==
    /\ hpc = "tune"
    /\ tune.i < Len(Pool(call.baseVariant))
    /\ LET i == tune.i + 1
           conf == Pool(call.baseVariant)[i]
       IN \E lat \in 1..MaxLatency :
            LET t == IF StaticAssertOk(conf, call.HEAD_DIM) THEN lat ELSE INF
                better == tune.best = 0 \/ t < tune.bestLat
            IN /\ tune' = [i |-> i,
                           best |-> IF better THEN i ELSE tune.best,
                           bestLat |-> IF better THEN t ELSE tune.bestLat,
                           measured |-> tune.measured \cup {t}]
               /\ launched' =
                    launched \cup {Run(Kernel(call.baseVariant), conf, call, "bench")}
    /\ UNCHANGED <<envVars, progVars, cache, firstCfg, hpc, args, call, cfg, result,
                   calls>>

\* Every candidate is measured: the best one is stored under the key.
AutotuneStore ==
    /\ hpc = "tune"
    /\ tune.i = Len(Pool(call.baseVariant))
    /\ cache' = [cache EXCEPT ![call.baseVariant] =
                    {e \in @ : e[1] # AutotuneKey(call)}
                    \cup {<<AutotuneKey(call), tune.best>>}]
    /\ firstCfg' =
         IF firstCfg[call.baseVariant][call.N_CTX] = 0
         THEN [firstCfg EXCEPT ![call.baseVariant][call.N_CTX] = tune.best]
         ELSE firstCfg
    /\ cfg' = tune.best
    /\ hpc' = "launch"
    /\ UNCHANGED <<envVars, progVars, args, call, tune, launched, result, calls>>

\* Variant of Launch: a baseVariant that names no kernel is rejected.
Launch_rejecting ==
    /\ hpc = "launch"
    /\ IF call.baseVariant \notin Variants
       THEN /\ hpc' = "idle"
            /\ result' = <<"ValueError">>
            /\ launched' = launched
       ELSE LET conf == Pool(call.baseVariant)[cfg]
            IN IF StaticAssertOk(conf, call.HEAD_DIM)
               THEN /\ hpc' = "saved"
                    /\ result' = <<"o">>
                    /\ launched' =
                         launched \cup {Run(Kernel(call.baseVariant), conf, call, "run")}
               ELSE /\ hpc' = "idle"
                    /\ result' = <<"CompileTimeAssertionFailure">>
                    /\ launched' =
                         launched \cup {Run(Kernel(call.baseVariant), conf, call, "run")}
    /\ tune' = NoTune
    /\ UNCHANGED <<envVars, progVars, cache, firstCfg, args, call, cfg, calls>>

\* The kernel call proper with the selected configuration, then lines
\* 1892-1897: save for backward and return o. A failing static assertion
\* raises out of forward; an unknown variant launches nothing.
Launch ==
    /\ hpc = "launch"
    /\ IF call.baseVariant \notin Variants
       THEN /\ hpc' = "saved"
            /\ result' = <<"o">>
            /\ launched' = launched
       ELSE LET conf == Pool(call.baseVariant)[cfg]
            IN IF StaticAssertOk(conf, call.HEAD_DIM)
               THEN /\ hpc' = "saved"
                    /\ result' = <<"o">>
                    /\ launched' =
                         launched \cup {Run(Kernel(call.baseVariant), conf, call, "run")}
               ELSE /\ hpc' = "idle"
                    /\ result' = <<"CompileTimeAssertionFailure">>
                    /\ launched' =
                         launched \cup {Run(Kernel(call.baseVariant), conf, call, "run")}
    /\ tune' = NoTune
    /\ UNCHANGED <<envVars, progVars, cache, firstCfg, args, call, cfg, calls>>

\* backward, lines 1900-1957: the assertions, the preprocess kernel, the
\* gradient kernel, the return.
Backward(contiguous, sameStrides) ==
    /\ hpc = "saved"
    /\ calls < MaxCalls
    /\ calls' = calls + 1
    /\ args' = <<"backward", contiguous, sameStrides, call.N_CTX>>
    /\ hpc' = "idle"
    /\ IF BwdArgsOk(contiguous, sameStrides, call.N_CTX)
       THEN /\ launched' =
                 {[kernel |-> "_attn_bwd_preprocess", how |-> "run", ran |-> TRUE],
                  [kernel |-> "_attn_bwd", how |-> "run", ran |-> TRUE]}
            /\ result' = BwdReturn
       ELSE /\ launched' = {}
            /\ result' = <<"AssertionError">>
    /\ UNCHANGED <<envVars, progVars, cache, firstCfg, call, tune, cfg>>

Next ==
    \/ \E hq \in HeadDimChoices, hk \in HeadDimChoices, same \in BOOLEAN,
          n \in NCtxValues, variant \in VariantChoices :
            Forward(hq, hk, IF same THEN hk ELSE hq, n, variant)
    \/ BenchConfig
    \/ AutotuneStore
    \/ Launch
    \/ \E contiguous \in BOOLEAN, sameStrides \in BOOLEAN :
            Backward(contiguous, sameStrides)

Spec == Init /\ [][Next]_vars

(**************************** host-level claims *****************************)
\* The elements of a sequence.
Range(seq) == {seq[k] : k \in 1..Len(seq)}

\* The gradient slot backward owes to an input of forward.
GradSlot(input) ==
    CASE input = "q" -> "dq"
      [] input = "k" -> "dk"
      [] input = "v" -> "dv"
      [] OTHER -> "None"

\* C4: a backward call that returns gives one slot per input of forward, dq,
\* dk, dv in the places of q, k, v and None elsewhere.
C4_BackwardReturnsOneSlotPerInput ==
    (args[1] = "backward" /\ result # <<"AssertionError">>) =>
        /\ Len(result) = Len(FwdInputs)
        /\ \A k \in 1..Len(FwdInputs) : result[k] = GradSlot(FwdInputs[k])

\* C5: no candidate whose BLOCK_N exceeds the head dimension of the call is
\* ever compiled or launched, so no static assertion fails.
C5_NoStaticAssertFailure ==
    \A r \in launched : r.ran

C9_RejectsBelowOccupancyThreshold ==
    /\ \E T \in 0..(128 * 128 * 8 + 1) \cap
                 ({0} \cup {64 * 64 * w + d : w \in {4, 8, 16, 32}, d \in {0, 1}}) :
         \A v \in Variants : \A c \in Range(RawPool(v)) :
            (c \notin Range(pools[v]))
              <=> (c.BLOCK_M * c.BLOCK_N * c.num_warps < T)
    /\ \A v \in Variants : \A c, d \in Range(RawPool(v)) :
         (c \notin Range(pools[v]) /\ d.BLOCK_M = c.BLOCK_M
            /\ d.BLOCK_N = c.BLOCK_N /\ d.num_warps < c.num_warps)
           => d \notin Range(pools[v])

\* C9 amended: the filter rejects exactly the candidates with tile area below
\* 128 * 128 and 8 warps; every candidate handed to an autotuner has tile
\* area at least 128 * 128 or a warp count other than 8.
C9_RejectsSmallTilesWithEightWarps ==
    \A v \in Variants :
        /\ \A c \in Range(RawPool(v)) :
             (c \notin Range(pools[v]))
               <=> (c.BLOCK_M * c.BLOCK_N < 128 * 128 /\ c.num_warps = 8)
        /\ \A c \in Range(pools[v]) :
             c.BLOCK_M * c.BLOCK_N >= 128 * 128 \/ c.num_warps # 8

\* The autotuner of _attn_fwd benchmarks a pool from which keep removed the
\* 8-warp candidate of a small tile and kept its 4-warp candidate.
C9_Witness ==
    /\ hpc = "tune"
    /\ call.baseVariant = "base"
    /\ \E c \in Range(configsOrig), d \in Range(pools["base"]) :
         /\ c \notin Range(pools["base"])
         /\ c.num_warps = 8 /\ d.num_warps = 4
         /\ d.BLOCK_M = c.BLOCK_M /\ d.BLOCK_N = c.BLOCK_N

\* C10: whatever the toggles, no pool handed to an autotuner holds a
\* candidate with loop schedule FA_firstDot, TMA and warp specialization
\* while last-iteration peeling is on.
C10_NoPeelFirstDotWsTma ==
    \A v \in Variants : \A c \in Range(pools[v]) :
        ~(PEEL_LAST /\ c.LOOP_SCHEDULE = "FA_firstDot" /\ c.ENABLE_TMA
            /\ EnableWS(v))

\* With both toggles set the TMA warp-specialized kernel is launched, with
\* loop schedule FA_secondDot.
C10_Witness ==
    /\ PEEL_LAST /\ WITH_COMPPIPE
    /\ hpc = "launch"
    /\ call.baseVariant = "tma_ws"
    /\ pools["tma_ws"][cfg].LOOP_SCHEDULE = "FA_secondDot"
    /\ pools["tma_ws"][cfg].ENABLE_TMA

\* The positions of a raw list whose candidate keep rejects.
Removed(variant) ==
    {k \in 1..Len(RawPool(variant)) : ~keep(RawPool(variant)[k])}

\* C29: whatever the toggles, each of the five filtered pools is non-empty;
\* keep removes from configsOrig exactly the candidates with 8 warps and a
\* tile area below 128 * 128, 9 of 24, leaving 15, and removes nothing from
\* the other four lists; with PEEL_LAST set every pool built from schedList
\* holds only candidates with loop schedule FA_secondDot.
C29_PoolsNonEmptyAndFiltered ==
    /\ \A v \in Variants : Len(pools[v]) >= 1
    /\ Len(configsOrig) = 24
    /\ Removed("base") =
          {k \in 1..Len(configsOrig) :
             /\ configsOrig[k].num_warps = 8
             /\ configsOrig[k].BLOCK_M * configsOrig[k].BLOCK_N < 128 * 128}
    /\ Cardinality(Removed("base")) = 9
    /\ Len(pools["base"]) = 15
    /\ \A k \in 1..Len(pools["base"]) :
          /\ pools["base"][k] \in Range(configsOrig)
          /\ ~(/\ pools["base"][k].num_warps = 8
               /\ pools["base"][k].BLOCK_M * pools["base"][k].BLOCK_N < 128 * 128)
    /\ \A v \in Variants \ {"base"} : pools[v] = RawPool(v)
    /\ PEEL_LAST =>
          \A v \in Variants \ {"base"} : \A c \in Range(pools[v]) :
             c.LOOP_SCHEDULE = "FA_secondDot"

\* With both toggles set the autotuner of _attn_fwd_ws benchmarks its pool
\* of two FA_secondDot candidates, configsOrig having been filtered to 15.
C29_Witness ==
    /\ PEEL_LAST /\ WITH_COMPPIPE
    /\ hpc = "tune"
    /\ call.baseVariant = "ws"
    /\ Len(pools["ws"]) = 2
    /\ Len(pools["base"]) = 15

\* C15: every forward kernel a call launches, in the autotuner's benchmark
\* or in the call proper, is the one kernel of the call's baseVariant, with a
\* configuration of that variant's own list, ENABLE_WS set exactly for 'ws' and
\* 'tma_ws' and ENABLE_TMA exactly for 'tma' and 'tma_ws'; a call that returns
\* has launched it once outside the benchmark.
C15_VariantFixesKernelAndPool ==
    LET v == call.baseVariant
        runs == {r \in launched : r.kernel \notin {"_attn_bwd_preprocess", "_attn_bwd"}}
    IN /\ \A r \in runs :
            /\ v \in {"base", "ws", "opt", "tma", "tma_ws"}
            /\ r.kernel = CASE v = "base" -> "_attn_fwd"
                             [] v = "ws" -> "_attn_fwd_ws"
                             [] v = "opt" -> "_attn_fwd_opt"
                             [] v = "tma" -> "_attn_fwd_tma"
                             [] v = "tma_ws" -> "_attn_fwd_tma_ws"
            /\ r.conf \in Range(CASE v = "base" -> configsOrig
                                   [] v = "ws" -> configsWS
                                   [] v = "opt" -> configsOpt
                                   [] v = "tma" -> configsTma
                                   [] v = "tma_ws" -> configsTmaWS)
            /\ r.ENABLE_WS = (v \in {"ws", "tma_ws"})
            /\ r.conf.ENABLE_TMA = (v \in {"tma", "tma_ws"})
       /\ (hpc = "saved" /\ v \in {"base", "ws", "opt", "tma", "tma_ws"})
            => Cardinality({r \in runs : r.how = "run"}) = 1

\* A 'tma_ws' call has returned after launching _attn_fwd_tma_ws.
C15_Witness ==
    /\ hpc = "saved"
    /\ call.baseVariant = "tma_ws"
    /\ \E r \in launched :
         r.kernel = "_attn_fwd_tma_ws" /\ r.how = "run" /\ r.ENABLE_WS
           /\ r.conf.ENABLE_TMA

\* C25: a call that finds its kernel's cache entry for N_CTX launches the
\* configuration first stored under that N_CTX, whatever its head dimension,
\* and that configuration's BLOCK_N is <= the HEAD_DIM of the call.
C25_CachedConfigStaysValid ==
    (hpc = "launch" /\ call.baseVariant \in Variants /\ tune.i = 0
       /\ CacheHas(call.baseVariant, AutotuneKey(call)))
      => /\ cfg = firstCfg[call.baseVariant][call.N_CTX]
         /\ StaticAssertOk(Pool(call.baseVariant)[cfg], call.HEAD_DIM)

\* The same statement without the validity of the configuration: the entry
\* is shared by the calls of one N_CTX.
C25_EntryIsShared ==
    (hpc = "launch" /\ call.baseVariant \in Variants /\ tune.i = 0
       /\ CacheHas(call.baseVariant, AutotuneKey(call)))
      => cfg = firstCfg[call.baseVariant][call.N_CTX]

\* The kernels that have written to the buffers o and M of the call, which
\* torch.empty_like and torch.empty allocate without writing (lines 1623,
\* 1708).
WritersOfOutput == {r \in launched : r.ran}

\* C26: a forward call whose baseVariant is none of the five names goes from
\* the accepted arguments to the return with no measurement, no kernel launch
\* and no error: it saves for backward and returns o, which no kernel wrote.
C26_UnknownVariantReturnsUnwritten ==
    (args[1] = "forward" /\ call # NoCall /\ call.baseVariant \notin Variants) =>
        /\ hpc \in {"launch", "saved"}
        /\ launched = {}
        /\ WritersOfOutput = {}
        /\ result = IF hpc = "saved" THEN <<"o">> ELSE <<"none">>

\* Forward has returned o for a baseVariant that names no kernel.
C26_Witness ==
    /\ hpc = "saved"
    /\ call.baseVariant \notin Variants
    /\ result = <<"o">>

(********************* one program of a forward kernel **********************)
FwdNCtxValues == {CtxUnit * k : k \in 1..MaxFwdCtxBlocks}

\* triton.cdiv, as grid_tma uses it (lines 1641, 1698).
cdiv(a, b) == (a + b - 1) \div b

\* _attn_fwd_inner, lines 146-153: the key range [lo, hi) of one call.
InnerRange(STAGE, start_m, BLOCK_M, N_CTX) ==
    IF STAGE = 1 THEN <<0, start_m * BLOCK_M>>
    ELSE IF STAGE = 2 THEN <<start_m * BLOCK_M, (start_m + 1) * BLOCK_M>>
    ELSE <<0, N_CTX>>

\* STAGE & 1 and STAGE & 2 of _attn_fwd_compute, lines 619 and 648.
StageBit1(STAGE) == STAGE % 2 = 1
StageBit2(STAGE) == (STAGE \div 2) % 2 = 1

\* offs_m, line 597: the query rows of the program.
OffsM(p) == {p.start_m * p.BLOCK_M + r : r \in 0..(p.BLOCK_M - 1)}

\* The rows of the flattened (Z * H * N_CTX)-row tensors M and Out that a
\* program with query rows offs_m of batch-head off_hz addresses: M + off_hz *
\* N_CTX + offs_m (line 680), Out + qvk_offset at row start_m * BLOCK_M (lines
\* 588-595, 686); q, o and M are contiguous.
RowAddr(off_hz, N_CTX, offs) == off_hz * N_CTX + offs

\* The epilogue's stores, lines 680-690. tl.store(m_ptrs, m_i) has no mask and
\* tl.store(O_block_ptr, ...) no boundary check: all BLOCK_M rows are written.
\* The descriptor store of the TMA kernels is clipped at the end of the
\* descriptor's tensor, BATCH * H * N_CTX rows (lines 1679-1688).
StoreSet(BLOCK_M, tma, N_CTX, start_m, off_hz) ==
    LET rows == {RowAddr(off_hz, N_CTX, start_m * BLOCK_M + r) : r \in 0..(BLOCK_M - 1)}
    IN {<<"M", a>> : a \in rows}
       \cup {<<"Out", a>> : a \in IF tma
                                  THEN {x \in rows : x < NumBatchHeads * N_CTX}
                                  ELSE rows}

\* The key positions one loop iteration loads (lines 162-169, 191-205): the
\* BLOCK_N rows from start_n on, with no boundary check.
TileKeys(t, BLOCK_N) == t.start_n..(t.start_n + BLOCK_N - 1)

\* The key positions of tile t that enter row i with a non-zero weight:
\* lines 173-180, the mask offs_m >= start_n + offs_n applies in STAGE 2 only.
TileContrib(t, i, BLOCK_N) ==
    IF t.STAGE = 2
    THEN {j \in TileKeys(t, BLOCK_N) : i >= j}
    ELSE TileKeys(t, BLOCK_N)

\* The key positions folded into row i so far, and how often position j was.
Folded(p, i) ==
    UNION {TileContrib(p.tiles[k], i, p.BLOCK_N) : k \in 1..Len(p.tiles)}
FoldCount(p, i, j) ==
    Cardinality({k \in 1..Len(p.tiles) : j \in TileContrib(p.tiles[k], i, p.BLOCK_N)})

\* The key positions the direct softmax-attention formula uses for row i.
Direct(causal, N_CTX, i) == IF causal THEN 0..i ELSE 0..(N_CTX - 1)

\* A program of the grid (cdiv(N_CTX, BLOCK_M), Z * H) of a kernel launched
\* with a configuration of its pool whose static assertion holds for some
\* accepted head dimension.
InitFwdProgram ==
    \E variant \in Variants, n \in FwdNCtxValues, causal \in BOOLEAN :
      \E k \in 1..Len(Pool(variant)) :
        LET conf == Pool(variant)[k]
        IN /\ \E hd \in HeadDims : StaticAssertOk(conf, hd)
           /\ \E sm \in 0..(cdiv(n, conf.BLOCK_M) - 1), hz \in 0..(NumBatchHeads - 1) :
                fwd = [pc |-> "start", BLOCK_M |-> conf.BLOCK_M,
                       BLOCK_N |-> conf.BLOCK_N, ENABLE_TMA |-> conf.ENABLE_TMA,
                       ENABLE_WS |-> EnableWS(variant), N_CTX |-> n,
                       causal |-> causal,
                       STAGE |-> Stage(causal), start_m |-> sm, off_hz |-> hz,
                       inner |-> 0, lo |-> 0, hi |-> 0, start_n |-> 0,
                       passes |-> <<>>, tiles |-> <<>>, stored |-> {}]

\* The module is imported and the host is idle.
InitImported ==
    /\ WITH_COMPPIPE \in BOOLEAN
    /\ PEEL_LAST \in BOOLEAN
    /\ has_warp_spec \in BOOLEAN
    /\ pools = [v \in Variants |-> FilteredPool(v)]
    /\ cache = [v \in Variants |-> {}]
    /\ firstCfg = [v \in Variants |-> [n \in NCtxValues |-> 0]]
    /\ hpc = "idle"
    /\ args = <<"none">>
    /\ call = NoCall
    /\ tune = NoTune
    /\ cfg = 0
    /\ launched = {}
    /\ result = <<"none">>
    /\ calls = 0

InitFwd ==
    /\ InitImported
    /\ callers = <<>>
    /\ bwd = NoBwd
    /\ ws = NoWs
    /\ stream = NoStream
    /\ grid = NoGrid
    /\ bench = NoBench
    /\ row = NoRow
    /\ desc_helper = NoDesc
    /\ InitFwdProgram

\* The state of the program on entry to _attn_fwd_inner with inner STAGE s.
EnterInner(p, pc, s) ==
    LET r == InnerRange(s, p.start_m, p.BLOCK_M, p.N_CTX)
    IN [p EXCEPT !.pc = pc, !.inner = s, !.lo = r[1], !.hi = r[2],
                 !.start_n = r[1], !.passes = Append(@, s)]

\* _attn_fwd_compute, lines 551-646: offsets, m_i, l_i, acc, the load of q,
\* then the first call of _attn_fwd_inner that STAGE selects.
FwdBegin ==
    /\ fwd.pc = "start"
    /\ fwd' = IF StageBit1(fwd.STAGE)
              THEN EnterInner(fwd, "stage1", 4 - fwd.STAGE)
              ELSE IF StageBit2(fwd.STAGE)
              THEN EnterInner(fwd, "stage2", 2)
              ELSE [fwd EXCEPT !.pc = "epilogue"]
    /\ UNCHANGED fwdRest

\* The rows of the flattened (Z * H * N_CTX)-row tensors K and V that the
\* tile at start_n reads: K_block_ptr and V_block_ptr start at K + qvk_offset
\* and V + qvk_offset (lines 572-587) and are advanced by lo and by BLOCK_N
\* (lines 155-156, 216-217); the descriptor loads read BLOCK_N rows from row
\* qvk_offset // stride_kn + start_n (lines 162-167, 200-205).
KeyRows(p, start_n) ==
    {RowAddr(p.off_hz, p.N_CTX, j) : j \in start_n..(start_n + p.BLOCK_N - 1)}

\* What the loads of the tile at start_n return for rows past the end of K
\* and V. tl.load(K_block_ptr) has no boundary check (line 169): the values
\* are whatever the memory holds, of ordinary size, huge, or NaN. A descriptor
\* load fills the rows outside the descriptor's tensor with zeros.
ReadOutcomes(p, start_n) ==
    IF \A a \in KeyRows(p, start_n) : a < NumBatchHeads * p.N_CTX
    THEN {"defined"}
    ELSE IF p.ENABLE_TMA THEN {"zero"} ELSE {"ordinary", "huge", "nan"}

\* One iteration of the loop of _attn_fwd_inner, lines 158-217: the K and V
\* tiles at start_n are loaded and folded into (acc, l_i, m_i).
FwdFold ==
    /\ fwd.pc \in {"stage1", "stage2"}
    /\ fwd.start_n < fwd.hi
    /\ \E read \in ReadOutcomes(fwd, fwd.start_n) :
         fwd' = [fwd EXCEPT
                   !.tiles = Append(@, [start_n |-> fwd.start_n,
                                        STAGE |-> fwd.inner, read |-> read]),
                   !.start_n = @ + fwd.BLOCK_N]
    /\ UNCHANGED fwdRest

\* The loop of _attn_fwd_inner ends (line 218); _attn_fwd_compute goes on to
\* the on-band call (lines 648-677) or to the epilogue.
FwdInnerReturn ==
    /\ fwd.pc \in {"stage1", "stage2"}
    /\ fwd.start_n >= fwd.hi
    /\ fwd' = IF fwd.pc = "stage1" /\ StageBit2(fwd.STAGE)
              THEN EnterInner(fwd, "stage2", 2)
              ELSE [fwd EXCEPT !.pc = "epilogue"]
    /\ UNCHANGED fwdRest

\* Variant of FwdEpilogue: the program is cancelled before its stores.
FwdEpilogue_cancelled ==
    /\ fwd.pc = "epilogue"
    /\ fwd' = [fwd EXCEPT !.pc = "cancelled"]
    /\ UNCHANGED fwdRest

\* The epilogue, lines 678-690: m_i += log2(l_i), acc / l_i, the stores of
\* the rows offs_m of M and of Out.
FwdEpilogue ==
    /\ fwd.pc = "epilogue"
    /\ fwd' = [fwd EXCEPT !.pc = "done",
                           !.stored = StoreSet(fwd.BLOCK_M, fwd.ENABLE_TMA, fwd.N_CTX,
                                               fwd.start_m, fwd.off_hz)]
    /\ UNCHANGED fwdRest

NextFwd == FwdBegin \/ FwdFold \/ FwdInnerReturn \/ FwdEpilogue

SpecFwd == InitFwd /\ [][NextFwd]_vars

\* C1: in causal mode no key position j > i is folded into query row i.
C1_CausalRowSeesNoLaterKey ==
    fwd.STAGE = 3 =>
        \A i \in OffsM(fwd) : \A j \in Folded(fwd, i) : j <= i

\* C2: when the program is done, row i has folded exactly the key positions
\* of the direct formula, each exactly once.
C2_TiledEqualsDirect ==
    fwd.pc = "done" =>
        \A i \in OffsM(fwd) \cap (0..(fwd.N_CTX - 1)) :
            /\ Folded(fwd, i) = Direct(fwd.STAGE = 3, fwd.N_CTX, i)
            /\ \A j \in Folded(fwd, i) : FoldCount(fwd, i, j) = 1

\* The rows of its own batch-head that the claim gives a program.
OwnRows(p) ==
    {RowAddr(p.off_hz, p.N_CTX, i) : i \in OffsM(p) \cap (0..(p.N_CTX - 1))}

\* C11: a program that is done has written in M and in Out only rows
\* [start_m * BLOCK_M, (start_m + 1) * BLOCK_M) of its own batch-head, all of
\* them inside the tensors, and no row that another program of the grid
\* writes.
C11_WritesOwnTileOnly ==
    fwd.pc = "done" =>
        /\ \A a \in fwd.stored :
              a[2] \in OwnRows(fwd) /\ a[2] < NumBatchHeads * fwd.N_CTX
        /\ \A sm \in 0..(cdiv(fwd.N_CTX, fwd.BLOCK_M) - 1),
              hz \in 0..(NumBatchHeads - 1) :
              <<sm, hz>> # <<fwd.start_m, fwd.off_hz>> =>
                  fwd.stored \cap StoreSet(fwd.BLOCK_M, fwd.ENABLE_TMA, fwd.N_CTX,
                                           sm, hz) = {}

\* The key positions loaded by the calls of _attn_fwd_inner with inner STAGE s.
Loaded(p, s) ==
    UNION {TileKeys(p.tiles[k], p.BLOCK_N) :
             k \in {x \in 1..Len(p.tiles) : p.tiles[x].STAGE = s}}

\* q is a prefix of r.
IsPrefix(q, r) == Len(q) <= Len(r) /\ \A k \in 1..Len(q) : q[k] = r[k]

\* C17: a causal program runs the unmasked pass, then the diagonal pass, then
\* is done; the unmasked pass loads key positions inside [0, start_m * BLOCK_M)
\* only and, once over, exactly these; the diagonal pass loads key positions
\* inside [start_m * BLOCK_M, (start_m + 1) * BLOCK_M) only and, once over,
\* exactly these; no key position at or beyond (start_m + 1) * BLOCK_M is
\* loaded.
C17_CausalRegions ==
    (fwd.pc # "none" /\ fwd.causal) =>
        LET q0 == fwd.start_m * fwd.BLOCK_M
            q1 == (fwd.start_m + 1) * fwd.BLOCK_M
        IN /\ IsPrefix(fwd.passes, <<1, 2>>)
           /\ fwd.pc \in {"epilogue", "done"} => fwd.passes = <<1, 2>>
           /\ \A k \in 1..Len(fwd.tiles) : fwd.tiles[k].STAGE \in {1, 2}
           /\ Loaded(fwd, 1) \subseteq 0..(q0 - 1)
           /\ Loaded(fwd, 2) \subseteq q0..(q1 - 1)
           /\ fwd.pc \in {"stage2", "epilogue", "done"} => Loaded(fwd, 1) = 0..(q0 - 1)
           /\ fwd.pc \in {"epilogue", "done"} => Loaded(fwd, 2) = q0..(q1 - 1)

\* The same statement for the configurations whose key tile is no larger than
\* the query tile.
C17_HoldsWhenKeyTileFits ==
    fwd.BLOCK_N <= fwd.BLOCK_M => C17_CausalRegions

\* C18: a non-causal program has STAGE 1 and runs one pass of _attn_fwd_inner,
\* with inner STAGE 3 (no mask), over start_n = 0, BLOCK_N, 2 * BLOCK_N, ...
\* below N_CTX, so that every key position of [0, N_CTX) is loaded; the
\* diagonal pass is never entered and the epilogue follows that one pass.
C18_NonCausalSinglePass ==
    (fwd.pc # "none" /\ ~fwd.causal) =>
        /\ fwd.STAGE = 1
        /\ fwd.pc # "stage2"
        /\ IsPrefix(fwd.passes, <<3>>)
        /\ \A k \in 1..Len(fwd.tiles) :
              /\ fwd.tiles[k].STAGE = 3
              /\ fwd.tiles[k].start_n = (k - 1) * fwd.BLOCK_N
              /\ fwd.tiles[k].start_n < fwd.N_CTX
              /\ TileContrib(fwd.tiles[k], 0, fwd.BLOCK_N)
                    = TileKeys(fwd.tiles[k], fwd.BLOCK_N)
        /\ fwd.pc \in {"epilogue", "done"} =>
              /\ fwd.passes = <<3>>
              /\ Len(fwd.tiles) = cdiv(fwd.N_CTX, fwd.BLOCK_N)
              /\ 0..(fwd.N_CTX - 1) \subseteq Loaded(fwd, 3)

\* A non-causal program is done after a pass of several tiles.
C18_Witness ==
    /\ fwd.pc = "done"
    /\ ~fwd.causal
    /\ Len(fwd.tiles) >= 2
    /\ fwd.stored # {}

\* What determines m_i of query row i after the tiles folded so far, lines
\* 173-179: tl.max(qk, 1) runs over every position of the tile, the masked
\* ones shifted by -1.0e6. A NaN read makes the maximum NaN; a huge value
\* read at a masked position exceeds every logit although shifted. Positions
\* past the end of K are past row i, hence masked in STAGE 2.
MaxOutcome(p, i) ==
    IF \E k \in 1..Len(p.tiles) : p.tiles[k].read = "nan" THEN "nan"
    ELSE IF \E k \in 1..Len(p.tiles) :
              p.tiles[k].STAGE = 2 /\ p.tiles[k].read = "huge" THEN "masked"
    ELSE IF Len(p.tiles) = 0 THEN "none"
    ELSE "logit"

\* l_i of row i, lines 181-185: a sum of exp2(qk - m_ij) that contains the
\* term 1 of the position that determines m_ij, or NaN when m_ij is NaN.
SumOutcome(p, i) ==
    IF MaxOutcome(p, i) = "nan" THEN "nan"
    ELSE IF Len(p.tiles) = 0 THEN "one" ELSE "positive"

\* C24: in causal mode, for every query row of the sequence, the first tile
\* folded has a position with key <= row; from the first fold on m_i is finite
\* and determined by a logit that is not shifted by the sentinel; at the
\* epilogue l_i > 0.
C24_FirstTileHasUnmaskedKey ==
    (fwd.pc # "none" /\ fwd.causal /\ Len(fwd.tiles) >= 1) =>
        \A i \in OffsM(fwd) \cap (0..(fwd.N_CTX - 1)) :
            /\ \E j \in TileKeys(fwd.tiles[1], fwd.BLOCK_N) :
                  j <= i /\ j \in TileContrib(fwd.tiles[1], i, fwd.BLOCK_N)
            /\ MaxOutcome(fwd, i) = "logit"
            /\ fwd.pc \in {"epilogue", "done"} => SumOutcome(fwd, i) = "positive"

\* The same statement for the programs none of whose tiles reaches past the
\* end of K and V.
C24_HoldsWhenReadsInBounds ==
    (\A k \in 1..Len(fwd.tiles) : fwd.tiles[k].read = "defined")
        => C24_FirstTileHasUnmaskedKey

\* C27: every K and V tile a forward program has read covers only the key
\* positions [0, N_CTX) of the program's own batch-head.
C27_TilesStayInSequence ==
    fwd.pc # "none" =>
        \A k \in 1..Len(fwd.tiles) :
            KeyRows(fwd, fwd.tiles[k].start_n)
              \subseteq {RowAddr(fwd.off_hz, fwd.N_CTX, j) : j \in 0..(fwd.N_CTX - 1)}

\* The same statement for the sequence lengths that are multiples of 128,
\* non-causal.
C27_HoldsForMultiplesOfTile ==
    (fwd.pc # "none" /\ fwd.N_CTX % 128 = 0 /\ ~fwd.causal)
        => C27_TilesStayInSequence

(********************* one program of the backward kernel *******************)
BwdNCtxValues == {PRE_BLOCK * k : k \in 1..MaxBwdCtxBlocks}

\* MASK_BLOCK_M1 and MASK_BLOCK_N2 of _attn_bwd, lines 1475 and 1549.
MASK_BLOCK_M1_unsliced == BLOCK_M1
MASK_BLOCK_M1 == BLOCK_M1 \div BLK_SLICE_FACTOR
MASK_BLOCK_N2 == BLOCK_N2 \div BLK_SLICE_FACTOR

\* A program of the grid (N_CTX // BLOCK_N1, 1, BATCH * N_HEAD), line 1929,
\* of a backward call that passed the assertion N_CTX % PRE_BLOCK == 0; causal
\* is the flag of the forward call whose context backward reads.
InitBwdProgram ==
    \E n \in BwdNCtxValues, causal \in BOOLEAN :
      \E pid \in 0..((n \div BLOCK_N1) - 1), bhid \in 0..(NumBatchHeads - 1) :
        bwd = [pc |-> "start", N_CTX |-> n, causal |-> causal, pid |-> pid,
               bhid |-> bhid, curr |-> 0, step |-> 0, num_steps |-> 0,
               blk_idx |-> 0, end_n |-> 0, dkdv |-> <<>>, dq |-> <<>>,
               stored |-> {}]

InitBwd ==
    /\ InitImported
    /\ callers = <<>>
    /\ fwd = NoFwd
    /\ ws = NoWs
    /\ stream = NoStream
    /\ grid = NoGrid
    /\ bench = NoBench
    /\ row = NoRow
    /\ desc_helper = NoDesc
    /\ InitBwdProgram

\* The state on entry to a sweep (_attn_bwd_dkdv or _attn_bwd_dq) that starts
\* at position start and makes num_steps steps of the given size.
EnterSweep(b, pc, start, step, num_steps) ==
    [b EXCEPT !.pc = pc, !.curr = start, !.step = step,
              !.num_steps = num_steps, !.blk_idx = 0]

\* _attn_bwd, lines 1453-1508: the key tile of the program, then the masked
\* dK/dV sweep from start_m = start_n.
BwdBegin ==
    /\ bwd.pc = "start"
    /\ bwd' = EnterSweep(bwd, "dkdv_masked", bwd.pid * BLOCK_N1, MASK_BLOCK_M1,
                         BLOCK_N1 \div MASK_BLOCK_M1)
    /\ UNCHANGED bwdRest

\* One iteration of the loop of _attn_bwd_dkdv, lines 1336-1362: the query
\* rows curr_m .. curr_m + BLOCK_M1 - 1 are folded into dk and dv.
BwdDkDvStep ==
    /\ bwd.pc \in {"dkdv_masked", "dkdv_unmasked"}
    /\ bwd.blk_idx < bwd.num_steps
    /\ bwd' = [bwd EXCEPT
                 !.dkdv = Append(@, [curr |-> bwd.curr, size |-> bwd.step,
                                     MASK |-> bwd.pc = "dkdv_masked"]),
                 !.curr = @ + bwd.step,
                 !.blk_idx = @ + 1]
    /\ UNCHANGED bwdRest

\* _attn_bwd_dkdv returns. After the masked sweep, lines 1510-1535: the
\* unmasked sweep over the rest of the rows. After the unmasked sweep, lines
\* 1537-1584: dv and dk are stored and the masked dQ sweep starts.
BwdDkDvReturn ==
    /\ bwd.pc \in {"dkdv_masked", "dkdv_unmasked"}
    /\ bwd.blk_idx >= bwd.num_steps
    /\ bwd' =
         IF bwd.pc = "dkdv_masked"
         THEN LET start_m == bwd.pid * BLOCK_N1 + bwd.num_steps * MASK_BLOCK_M1
              IN EnterSweep(bwd, "dkdv_unmasked", start_m, BLOCK_M1,
                            (bwd.N_CTX - start_m) \div BLOCK_M1)
         ELSE LET start_m == bwd.pid * BLOCK_M2
                  end_n == start_m + BLOCK_M2
                  num_steps == BLOCK_M2 \div MASK_BLOCK_N2
                  b == [bwd EXCEPT
                          !.stored = @ \cup {<<"dv", bwd.pid * BLOCK_N1>>,
                                             <<"dk", bwd.pid * BLOCK_N1>>},
                          !.end_n = end_n]
              IN EnterSweep(b, "dq_masked", end_n - num_steps * MASK_BLOCK_N2,
                            MASK_BLOCK_N2, num_steps)
    /\ UNCHANGED bwdRest

\* One iteration of the loop of _attn_bwd_dq, lines 1401-1421: the keys
\* curr_n .. curr_n + BLOCK_N2 - 1 are folded into dq.
BwdDqStep ==
    /\ bwd.pc \in {"dq_masked", "dq_unmasked"}
    /\ bwd.blk_idx < bwd.num_steps
    /\ bwd' = [bwd EXCEPT
                 !.dq = Append(@, [curr |-> bwd.curr, size |-> bwd.step,
                                   MASK |-> bwd.pc = "dq_masked"]),
                 !.curr = @ + bwd.step,
                 !.blk_idx = @ + 1]
    /\ UNCHANGED bwdRest

\* _attn_bwd_dq returns. After the masked sweep, lines 1585-1607: the
\* unmasked sweep over the keys before the tile. After the unmasked sweep,
\* lines 1608-1611: dq is stored.
BwdDqReturn ==
    /\ bwd.pc \in {"dq_masked", "dq_unmasked"}
    /\ bwd.blk_idx >= bwd.num_steps
    /\ bwd' =
         IF bwd.pc = "dq_masked"
         THEN LET end_n == bwd.end_n - bwd.num_steps * MASK_BLOCK_N2
                  num_steps == end_n \div BLOCK_N2
              IN EnterSweep([bwd EXCEPT !.end_n = end_n], "dq_unmasked",
                            end_n - num_steps * BLOCK_N2, BLOCK_N2, num_steps)
         ELSE [bwd EXCEPT !.pc = "done",
                          !.stored = @ \cup {<<"dq", bwd.pid * BLOCK_M2>>}]
    /\ UNCHANGED bwdRest

NextBwd == BwdBegin \/ BwdDkDvStep \/ BwdDkDvReturn \/ BwdDqStep \/ BwdDqReturn

SpecBwd == InitBwd /\ [][NextBwd]_vars

\* The key tile offs_n (line 1476) and the query tile offs_m (line 1550) of
\* the program.
BwdOffsN(b) == (b.pid * BLOCK_N1)..(b.pid * BLOCK_N1 + BLOCK_N1 - 1)
BwdOffsM(b) == (b.pid * BLOCK_M2)..(b.pid * BLOCK_M2 + BLOCK_M2 - 1)

\* The positions of one step that enter the gradient of position x of the
\* program's tile: the masks of lines 1345 (rows >= key) and 1409
\* (row >= keys) apply when MASK is set.
DkDvStepRows(st, j) ==
    {i \in st.curr..(st.curr + st.size - 1) : st.MASK => i >= j}
DqStepKeys(st, i) ==
    {j \in st.curr..(st.curr + st.size - 1) : st.MASK => i >= j}

\* The query rows accumulated into dK[j] and dV[j], the keys accumulated into
\* dQ[i], and how often each was.
BwdRowsOfKey(b, j) ==
    UNION {DkDvStepRows(b.dkdv[k], j) : k \in 1..Len(b.dkdv)}
BwdKeysOfRow(b, i) ==
    UNION {DqStepKeys(b.dq[k], i) : k \in 1..Len(b.dq)}
BwdRowCount(b, j, i) ==
    Cardinality({k \in 1..Len(b.dkdv) : i \in DkDvStepRows(b.dkdv[k], j)})
BwdKeyCount(b, i, j) ==
    Cardinality({k \in 1..Len(b.dq) : j \in DqStepKeys(b.dq[k], i)})

\* C3: when the program is done, dK[j] and dV[j] hold the contribution of
\* exactly the rows that attend to key j under the forward call's mode, and
\* dQ[i] that of exactly the keys row i attends to, each pair once.
C3_BackwardPairsMatchForward ==
    bwd.pc = "done" =>
        /\ \A j \in BwdOffsN(bwd) :
             /\ BwdRowsOfKey(bwd, j) =
                  {i \in 0..(bwd.N_CTX - 1) : j \in Direct(bwd.causal, bwd.N_CTX, i)}
             /\ \A i \in BwdRowsOfKey(bwd, j) : BwdRowCount(bwd, j, i) = 1
        /\ \A i \in BwdOffsM(bwd) :
             /\ BwdKeysOfRow(bwd, i) = Direct(bwd.causal, bwd.N_CTX, i)
             /\ \A j \in BwdKeysOfRow(bwd, i) : BwdKeyCount(bwd, i, j) = 1

\* The steps of a sweep with the given MASK flag, in order, and the
\* positions they cover.
StepsOf(sweep, MASK) == SelectSeq(sweep, LAMBDA st : st.MASK = MASK)
StepRange(st) == st.curr..(st.curr + st.size - 1)
Covered(steps) == UNION {StepRange(steps[k]) : k \in 1..Len(steps)}

\* The steps are n steps of the given size, one after the other from lo on.
Consecutive(steps, lo, size, n) ==
    /\ Len(steps) = n
    /\ \A k \in 1..n : steps[k].size = size /\ steps[k].curr = lo + (k - 1) * size

\* C22: when a backward program is done, its dK/dV sweep has made 8 masked
\* steps of 16 query rows from start_n on and then unmasked steps of 32 rows
\* from start_n + 128 to N_CTX; its dQ sweep has made 8 masked steps of 16
\* keys from start_m on and unmasked steps of 32 keys over [0, start_m). The
\* masked steps come first, no step leaves [0, N_CTX), and a masked step keeps
\* for a position of the tile exactly the pairs with query >= key.
C22_BackwardSweepRanges ==
    bwd.pc = "done" =>
        LET start_n == bwd.pid * 128
            start_m == bwd.pid * 128
            km == StepsOf(bwd.dkdv, TRUE)
            ku == StepsOf(bwd.dkdv, FALSE)
            qm == StepsOf(bwd.dq, TRUE)
            qu == StepsOf(bwd.dq, FALSE)
        IN /\ bwd.N_CTX % 128 = 0
           /\ bwd.dkdv = km \o ku
           /\ bwd.dq = qm \o qu
           /\ Consecutive(km, start_n, 16, 8)
           /\ Consecutive(ku, start_n + 128, 32, (bwd.N_CTX - start_n - 128) \div 32)
           /\ Consecutive(qm, start_m, 16, 8)
           /\ Consecutive(qu, 0, 32, start_m \div 32)
           /\ Covered(km) = start_n..(start_n + 127)
           /\ Covered(ku) = (start_n + 128)..(bwd.N_CTX - 1)
           /\ Covered(qm) = start_m..(start_m + 127)
           /\ Covered(qu) = 0..(start_m - 1)
           /\ Covered(bwd.dkdv) \cup Covered(bwd.dq) \subseteq 0..(bwd.N_CTX - 1)
           /\ \A k \in 1..8 :
                 /\ \A j \in BwdOffsN(bwd) :
                       DkDvStepRows(km[k], j) = {i \in StepRange(km[k]) : i >= j}
                 /\ \A i \in BwdOffsM(bwd) :
                       DqStepKeys(qm[k], i) = {j \in StepRange(qm[k]) : i >= j}

\* A program that is neither the first nor the last of its grid is done: both
\* of its unmasked sweeps made steps.
C22_Witness ==
    /\ bwd.pc = "done"
    /\ StepsOf(bwd.dkdv, FALSE) # <<>>
    /\ StepsOf(bwd.dq, FALSE) # <<>>

(**************** a launched program runs to completion *********************)
\* A launched program, forward or backward: the device runs every program of
\* a launched grid, so a program that can take a step eventually takes one.
InitRun == InitFwd \/ InitBwd

NextRun == NextFwd \/ NextBwd

SpecRun == InitRun /\ [][NextRun]_vars /\ WF_vars(NextRun)

\* Inside a tile loop: the number of iterations is fixed on entry, it is not
\* negative, and the iterations made so far do not exceed it.
LoopCountsFixed ==
    /\ fwd.pc \in {"stage1", "stage2"} =>
          /\ fwd.lo <= fwd.hi
          /\ fwd.start_n >= fwd.lo
          /\ (fwd.start_n - fwd.lo) % fwd.BLOCK_N = 0
          /\ (fwd.start_n - fwd.lo) \div fwd.BLOCK_N
                <= cdiv(fwd.hi - fwd.lo, fwd.BLOCK_N)
    /\ bwd.pc \in {"dkdv_masked", "dkdv_unmasked", "dq_masked", "dq_unmasked"} =>
          /\ bwd.num_steps >= 0
          /\ bwd.blk_idx \in 0..bwd.num_steps

\* A step that stays in a loop advances the loop index, and no step changes
\* the bounds of the loop it stays in.
LoopIndexAdvances ==
    /\ (fwd.pc \in {"stage1", "stage2"} /\ fwd'.pc = fwd.pc /\ fwd' # fwd) =>
          /\ fwd'.start_n > fwd.start_n
          /\ fwd'.lo = fwd.lo /\ fwd'.hi = fwd.hi
    /\ (bwd.pc \in {"dkdv_masked", "dkdv_unmasked", "dq_masked", "dq_unmasked"}
          /\ bwd'.pc = bwd.pc /\ bwd' # bwd) =>
          /\ bwd'.blk_idx = bwd.blk_idx + 1
          /\ bwd'.num_steps = bwd.num_steps

\* The positions of a program: no other position (waiting, retrying,
\* cancelled) exists.
ProgramPositions ==
    /\ fwd.pc \in {"none", "start", "stage1", "stage2", "epilogue", "done"}
    /\ bwd.pc \in {"none", "start", "dkdv_masked", "dkdv_unmasked", "dq_masked",
                    "dq_unmasked", "done"}

BenchOutcomes(pool, headDim) ==
    LET ok == {i \in 1..Len(pool) : StaticAssertOk(pool[i], headDim)}
    IN IF ok = {} THEN {1} ELSE ok

\* Callers (threads) that are about to call forward with the same
\* baseVariant, each with its own sequence length; nothing in forward or in
\* the decorators takes a lock.
InitConc ==
    /\ InitImported
    /\ fwd = NoFwd
    /\ bwd = NoBwd
    /\ ws = NoWs
    /\ stream = NoStream
    /\ grid = NoGrid
    /\ bench = NoBench
    /\ row = NoRow
    /\ desc_helper = NoDesc
    /\ \E variant \in Variants, hd \in {64, 128} :
         \E ns \in [1..NumCallers -> NCtxValues] :
           callers = [t \in 1..NumCallers |->
                        [pc |-> "call", baseVariant |-> variant, N_CTX |-> ns[t],
                         HEAD_DIM |-> hd, best |-> 0, cfg |-> 0, wrote |-> FALSE]]

\* The autotuner's lookup of the caller's key.
ConcLookup(t) ==
    /\ callers[t].pc = "call"
    /\ LET c == callers[t]
       IN callers' =
            IF Len(Pool(c.baseVariant)) > 1
            THEN IF CacheHas(c.baseVariant, AutotuneKey(c))
                 THEN [callers EXCEPT ![t].pc = "run",
                          ![t].cfg = CacheGet(c.baseVariant, AutotuneKey(c))]
                 ELSE [callers EXCEPT ![t].pc = "bench"]
            ELSE [callers EXCEPT ![t].pc = "run", ![t].cfg = 1]
    /\ UNCHANGED <<envVars, hostVars, concRest>>

\* The caller found no entry: it benchmarks the pool.
ConcBench(t) ==
    /\ callers[t].pc = "bench"
    /\ \E b \in BenchOutcomes(Pool(callers[t].baseVariant), callers[t].HEAD_DIM) :
         callers' = [callers EXCEPT ![t].pc = "store", ![t].best = b]
    /\ UNCHANGED <<envVars, hostVars, concRest>>

\* The caller stores its best candidate under the key and will launch it.
ConcStore(t) ==
    /\ callers[t].pc = "store"
    /\ LET c == callers[t]
       IN /\ cache' = [cache EXCEPT ![c.baseVariant] =
                         {e \in @ : e[1] # AutotuneKey(c)}
                         \cup {<<AutotuneKey(c), c.best>>}]
          /\ callers' = [callers EXCEPT ![t].pc = "run", ![t].cfg = c.best,
                                        ![t].wrote = TRUE]
    /\ UNCHANGED <<envVars, firstCfg, hpc, args, call, tune, cfg, launched, result,
                   calls, concRest>>

\* The caller launches the kernel with its configuration.
ConcRun(t) ==
    /\ callers[t].pc = "run"
    /\ callers' = [callers EXCEPT ![t].pc =
                     IF StaticAssertOk(Pool(callers[t].baseVariant)[callers[t].cfg],
                                       callers[t].HEAD_DIM)
                     THEN "done" ELSE "failed"]
    /\ UNCHANGED <<envVars, hostVars, concRest>>

NextConc ==
    \E t \in 1..NumCallers :
        ConcLookup(t) \/ ConcBench(t) \/ ConcStore(t) \/ ConcRun(t)

SpecConc == InitConc /\ [][NextConc]_vars

\* C7: of two callers with the same N_CTX at most one writes the cache entry,
\* and once both have their configuration it is the same one.
C7_SingleWriterPerKey ==
    \A t1, t2 \in 1..NumCallers :
        (t1 # t2 /\ callers[t1].N_CTX = callers[t2].N_CTX) =>
            /\ ~(callers[t1].wrote /\ callers[t2].wrote)
            /\ (callers[t1].cfg # 0 /\ callers[t2].cfg # 0
                  => callers[t1].cfg = callers[t2].cfg)

(************ one program of a warp-specialized forward kernel **************)
\* Sequence lengths of the warp-specialized programs: MaxWsCtxBlocks tiles.
MaxWsCtxBlocks == 3

\* The largest num_consumer_groups of a configuration: for grp in [2].
MaxConsumerGroups == 2

\* tl.range(lo, hi, step) as a sequence.
RangeSeq(lo, hi, step) ==
    [k \in 1..(IF hi > lo THEN cdiv(hi - lo, step) ELSE 0) |-> lo + (k - 1) * step]

\* The iterations of one call of _attn_fwd_inner / _attn_fwd_inner_ws with
\* inner STAGE s: lines 146-158 and, word for word the same, 250-262.
InnerTiles(s, start_m, BLOCK_M, BLOCK_N, N_CTX) ==
    LET r == InnerRange(s, start_m, BLOCK_M, N_CTX)
        starts == RangeSeq(r[1], r[2], BLOCK_N)
    IN [k \in 1..Len(starts) |-> [start_n |-> starts[k], STAGE |-> s]]

\* The iterations of a whole program in program order: the off-band call if
\* STAGE & 1, then the on-band call if STAGE & 2 (lines 619-677, 800-857).
ComputeTiles(STAGE, start_m, BLOCK_M, BLOCK_N, N_CTX) ==
    (IF StageBit1(STAGE)
     THEN InnerTiles(4 - STAGE, start_m, BLOCK_M, BLOCK_N, N_CTX) ELSE <<>>)
    \o (IF StageBit2(STAGE)
        THEN InnerTiles(2, start_m, BLOCK_M, BLOCK_N, N_CTX) ELSE <<>>)

\* A buffer slot between the load task and the compute tasks: the tile it
\* holds and the consumer groups that have not taken it yet.
EmptySlot == [tile |-> -1, pending |-> {}]

\* Variant of SlotFree: the load task never waits for a slot.
SlotFree_always(slot) == TRUE

\* The load task may fill a slot once every consumer group has taken the tile
\* in it: the num_buffers_warp_spec buffers of the configuration between
\* async_task [0] and async_tasks [1, 2].
SlotFree(slot) == slot.pending = {}

\* A program of _attn_fwd_ws or _attn_fwd_tma_ws, built with warp
\* specialization: async task 0 loads, async tasks 1 and 2 (the consumer
\* groups) compute.
InitWsProgram ==
    \E variant \in {v \in Variants : EnableWS(v)}, causal \in BOOLEAN :
      \E k \in 1..Len(Pool(variant)), nb \in 1..MaxWsCtxBlocks :
        LET conf == Pool(variant)[k]
            n == conf.BLOCK_M * nb
        IN \E sm \in 0..(cdiv(n, conf.BLOCK_M) - 1) :
             ws = [pc |-> "run", BLOCK_M |-> conf.BLOCK_M, BLOCK_N |-> conf.BLOCK_N,
                   ENABLE_TMA |-> conf.ENABLE_TMA, N_CTX |-> n,
                   STAGE |-> Stage(causal), start_m |-> sm,
                   nbuf |-> conf.num_buffers_warp_spec,
                   groups |-> conf.num_consumer_groups,
                   work |-> ComputeTiles(Stage(causal), sm, conf.BLOCK_M,
                                         conf.BLOCK_N, n),
                   qLoaded |-> FALSE, kLoads |-> 0, vLoads |-> 0,
                   kbuf |-> [b \in 0..(conf.num_buffers_warp_spec - 1) |-> EmptySlot],
                   vbuf |-> [b \in 0..(conf.num_buffers_warp_spec - 1) |-> EmptySlot],
                   cons |-> [g \in 1..conf.num_consumer_groups |->
                               [it |-> 0, part |-> "qk", k |-> -1, folds |-> <<>>,
                                done |-> FALSE]]]

InitWs ==
    /\ InitImported
    /\ has_warp_spec
    /\ callers = <<>>
    /\ fwd = NoFwd
    /\ bwd = NoBwd
    /\ stream = NoStream
    /\ grid = NoGrid
    /\ bench = NoBench
    /\ row = NoRow
    /\ desc_helper = NoDesc
    /\ InitWsProgram

wsRest == <<envVars, hostVars, callers, fwd, bwd, stream, grid, bench, row, desc_helper>>

\* _attn_fwd_compute_ws, lines 787-796: async task 0 loads q.
WsLoadQ ==
    /\ ws.pc = "run"
    /\ ~ws.qLoaded
    /\ ws' = [ws EXCEPT !.qLoaded = TRUE]
    /\ UNCHANGED wsRest

\* _attn_fwd_inner_ws, lines 265-274: async task 0 loads the K tile of the
\* next iteration into the next buffer.
WsLoadK ==
    /\ ws.pc = "run"
    /\ ws.qLoaded
    /\ ws.kLoads < Len(ws.work)
    /\ ws.kLoads = ws.vLoads
    /\ SlotFree(ws.kbuf[ws.kLoads % ws.nbuf])
    /\ ws' = [ws EXCEPT
                !.kbuf[ws.kLoads % ws.nbuf] =
                    [tile |-> ws.work[ws.kLoads + 1].start_n, pending |-> 1..ws.groups],
                !.kLoads = @ + 1]
    /\ UNCHANGED wsRest

\* _attn_fwd_inner_ws, lines 295-312: async task 0 loads the V tile of the
\* same iteration.
WsLoadV ==
    /\ ws.pc = "run"
    /\ ws.vLoads < ws.kLoads
    /\ SlotFree(ws.vbuf[ws.vLoads % ws.nbuf])
    /\ ws' = [ws EXCEPT
                !.vbuf[ws.vLoads % ws.nbuf] =
                    [tile |-> ws.work[ws.vLoads + 1].start_n, pending |-> 1..ws.groups],
                !.vLoads = @ + 1]
    /\ UNCHANGED wsRest

\* _attn_fwd_inner_ws, lines 275-294: a consumer group takes the K tile of
\* its iteration and computes qk, p, l_i and the rescaled acc.
WsQK(g) ==
    /\ ws.pc = "run"
    /\ g <= ws.groups
    /\ ws.qLoaded
    /\ LET c == ws.cons[g]
           b == c.it % ws.nbuf
       IN /\ c.part = "qk"
          /\ c.it < Len(ws.work)
          /\ g \in ws.kbuf[b].pending
          /\ ws' = [ws EXCEPT !.cons[g].k = ws.kbuf[b].tile,
                              !.cons[g].part = "pv",
                              !.kbuf[b].pending = @ \ {g}]
    /\ UNCHANGED wsRest

\* _attn_fwd_inner_ws, lines 313-322: the consumer group takes the V tile and
\* folds the tile: acc = dot(p, v, acc), m_i = m_ij.
WsPV(g) ==
    /\ ws.pc = "run"
    /\ g <= ws.groups
    /\ LET c == ws.cons[g]
           b == c.it % ws.nbuf
       IN /\ c.part = "pv"
          /\ g \in ws.vbuf[b].pending
          /\ ws' = [ws EXCEPT
                      !.cons[g].folds =
                          Append(@, [start_n |-> ws.work[c.it + 1].start_n,
                                     STAGE |-> ws.work[c.it + 1].STAGE,
                                     k |-> c.k, v |-> ws.vbuf[b].tile]),
                      !.cons[g].it = @ + 1,
                      !.cons[g].part = "qk",
                      !.vbuf[b].pending = @ \ {g}]
    /\ UNCHANGED wsRest

\* _attn_fwd_compute_ws, lines 860-872: the epilogue of a consumer group.
WsEpilogue(g) ==
    /\ ws.pc = "run"
    /\ g <= ws.groups
    /\ ws.cons[g].it = Len(ws.work)
    /\ ~ws.cons[g].done
    /\ ws' = [ws EXCEPT !.cons[g].done = TRUE]
    /\ UNCHANGED wsRest

NextWs ==
    \/ WsLoadQ
    \/ WsLoadK
    \/ WsLoadV
    \/ \E g \in 1..MaxConsumerGroups : WsQK(g)
    \/ \E g \in 1..MaxConsumerGroups : WsPV(g)
    \/ \E g \in 1..MaxConsumerGroups : WsEpilogue(g)

SpecWs == InitWs /\ [][NextWs]_vars

PreprocessWrites(pid, off_hz, N_CTX) ==
    {off_hz * N_CTX + pid * PRE_BLOCK + r : r \in 0..(PRE_BLOCK - 1)}

\* The rows of D (= Delta) the dK/dV sweeps of a program of _attn_bwd load,
\* D + off_chz + offs_m (lines 1461, 1339, 1352): the masked sweep from
\* start_m = pid * BLOCK_N1, then the unmasked sweep over the rows after it.
DkDvDeltaReads(pid, bhid, N_CTX) ==
    LET start_m == pid * BLOCK_N1
        masked == (BLOCK_N1 \div MASK_BLOCK_M1) * MASK_BLOCK_M1
        start2 == start_m + masked
        unmasked == ((N_CTX - start2) \div BLOCK_M1) * BLOCK_M1
    IN {bhid * N_CTX + r : r \in start_m..(start2 + unmasked - 1)}

\* The rows of D the dQ part loads: offs_m = pid * BLOCK_M2 + arange(BLOCK_M2)
\* (lines 1547-1557).
DqDeltaReads(pid, bhid, N_CTX) ==
    {bhid * N_CTX + pid * BLOCK_M2 + r : r \in 0..(BLOCK_M2 - 1)}

\* The rows of DK and DV (offs_n, lines 1476, 1537-1543) and of DQ (offs_m,
\* lines 1550, 1608-1611) a program of _attn_bwd stores; DQ, DK and DV are
\* offset by adj, bhid * N_CTX rows of the contiguous tensors (lines 1447-1459).
\* Each store covers consecutive rows: the first row and their number.
DkDvWrites(pid, bhid, N_CTX) ==
    [lo |-> bhid * N_CTX + pid * BLOCK_N1, n |-> BLOCK_N1]
DqWrites(pid, bhid, N_CTX) ==
    [lo |-> bhid * N_CTX + pid * BLOCK_M2, n |-> BLOCK_M2]
DeltaWrites(pid, off_hz, N_CTX) ==
    [lo |-> off_hz * N_CTX + pid * PRE_BLOCK, n |-> PRE_BLOCK]

\* Variant of BwdGrid: one program fewer per batch-head.
BwdGrid_short(N_CTX) == (0..((N_CTX \div BLOCK_N1) - 2)) \X (0..(NumBatchHeads - 1))

\* The grids of the two launches, lines 1917 and 1929.
PreGrid(N_CTX) == (0..((N_CTX \div PRE_BLOCK) - 1)) \X (0..(NumBatchHeads - 1))
BwdGrid(N_CTX) == (0..((N_CTX \div BLOCK_N1) - 1)) \X (0..(NumBatchHeads - 1))

\* Variant of PreprocessDone: the second kernel does not wait for the first.
PreprocessDone_overlap(st) == TRUE

\* Both kernels are launched on the current stream, _attn_bwd_preprocess
\* (line 1919) before _attn_bwd (line 1930): the programs of the second run
\* once every program of the first has finished.
PreprocessDone(st) == st.prePending = {}

\* backward has passed its assertions and launched both kernels.
InitStream ==
    /\ InitImported
    /\ callers = <<>>
    /\ fwd = NoFwd
    /\ bwd = NoBwd
    /\ ws = NoWs
    /\ grid = NoGrid
    /\ bench = NoBench
    /\ row = NoRow
    /\ desc_helper = NoDesc
    /\ \E n \in BwdNCtxValues :
         stream = [pc |-> "run", N_CTX |-> n, prePending |-> PreGrid(n),
                   phase |-> [g \in BwdGrid(n) |-> "dkdv"],
                   delta |-> {}, unwritten |-> {}, writes |-> {}]

streamRest == <<envVars, hostVars, callers, fwd, bwd, ws, grid, bench, row, desc_helper>>

\* One program of _attn_bwd_preprocess runs: it stores its rows of Delta.
PreprocessProgram(pid, off_hz) ==
    /\ stream.pc = "run"
    /\ <<pid, off_hz>> \in stream.prePending
    /\ stream' = [stream EXCEPT
                    !.prePending = @ \ {<<pid, off_hz>>},
                    !.delta = @ \cup PreprocessWrites(pid, off_hz, stream.N_CTX),
                    !.writes = @ \cup
                       {<<"Delta", DeltaWrites(pid, off_hz, stream.N_CTX),
                          <<"pre", pid, off_hz>>>>}]
    /\ UNCHANGED streamRest

\* One program of _attn_bwd runs its dK/dV sweeps, loading Di for their rows,
\* and stores dv and dk.
BwdProgramDkDv(pid, bhid) ==
    /\ stream.pc = "run"
    /\ PreprocessDone(stream)
    /\ <<pid, bhid>> \in DOMAIN stream.phase
    /\ stream.phase[<<pid, bhid>>] = "dkdv"
    /\ stream' = [stream EXCEPT
                    !.phase[<<pid, bhid>>] = "dq",
                    !.unwritten = @ \cup (DkDvDeltaReads(pid, bhid, stream.N_CTX)
                                            \ stream.delta),
                    !.writes = @ \cup
                       {<<buf, DkDvWrites(pid, bhid, stream.N_CTX),
                          <<"bwd", pid, bhid>>>> : buf \in {"dv", "dk"}}]
    /\ UNCHANGED streamRest

\* The program goes on to its dQ part, loading Di for its own query tile,
\* and stores dq.
BwdProgramDq(pid, bhid) ==
    /\ stream.pc = "run"
    /\ PreprocessDone(stream)
    /\ <<pid, bhid>> \in DOMAIN stream.phase
    /\ stream.phase[<<pid, bhid>>] = "dq"
    /\ stream' = [stream EXCEPT
                    !.phase[<<pid, bhid>>] = "done",
                    !.unwritten = @ \cup (DqDeltaReads(pid, bhid, stream.N_CTX)
                                            \ stream.delta),
                    !.writes = @ \cup
                       {<<"dq", DqWrites(pid, bhid, stream.N_CTX),
                          <<"bwd", pid, bhid>>>>}]
    /\ UNCHANGED streamRest

NextStream ==
    \/ \E pid \in 0..(MaxBwdCtxBlocks - 1), hz \in 0..(NumBatchHeads - 1) :
         PreprocessProgram(pid, hz)
    \/ \E pid \in 0..(MaxBwdCtxBlocks - 1), hz \in 0..(NumBatchHeads - 1) :
         BwdProgramDkDv(pid, hz)
    \/ \E pid \in 0..(MaxBwdCtxBlocks - 1), hz \in 0..(NumBatchHeads - 1) :
         BwdProgramDq(pid, hz)

SpecStream == InitStream /\ [][NextStream]_vars

\* C13: no program of _attn_bwd has loaded a row of Delta that was not
\* written, and once a program has loaded Delta every row of its batch-head
\* is written.
C13_DeltaWrittenBeforeRead ==
    stream.pc = "run" =>
        /\ stream.unwritten = {}
        /\ \A g \in DOMAIN stream.phase :
             stream.phase[g] # "dkdv" =>
                 {g[2] * stream.N_CTX + r : r \in 0..(stream.N_CTX - 1)}
                     \subseteq stream.delta

\* The programs that have written row a of a buffer.
WritersOf(st, buf, a) ==
    {w[3] : w \in {x \in st.writes :
                     x[1] = buf /\ a \in x[2].lo..(x[2].lo + x[2].n - 1)}}

\* Every program of both grids has run: backward returns.
BackwardReturns(st) ==
    st.prePending = {} /\ \A g \in DOMAIN st.phase : st.phase[g] = "done"

\* C28: no row of Delta, dq, dk, dv is written by two programs, no program
\* writes outside the BATCH * N_HEAD * N_CTX rows, and when backward returns
\* every row of the four buffers has been written.
C28_EveryRowWrittenOnce ==
    stream.pc = "run" =>
        /\ \A w \in stream.writes :
              /\ w[2].lo >= 0
              /\ w[2].lo + w[2].n <= NumBatchHeads * stream.N_CTX
              /\ \A x \in stream.writes :
                    (x[1] = w[1] /\ x[3] # w[3]) =>
                        \/ x[2].lo + x[2].n <= w[2].lo
                        \/ w[2].lo + w[2].n <= x[2].lo
        /\ BackwardReturns(stream) =>
              \A buf \in {"Delta", "dq", "dk", "dv"},
                 a \in 0..(NumBatchHeads * stream.N_CTX - 1) :
                   WritersOf(stream, buf, a) # {}

\* backward returns after a run over grids of several programs per
\* batch-head.
C28_Witness ==
    /\ stream.pc = "run"
    /\ stream.N_CTX >= 2 * PRE_BLOCK
    /\ BackwardReturns(stream)
    /\ stream.writes # {}

\* A program of the second key tile has read Delta while another program of
\* the gradient kernel has yet to start.
C13_Witness ==
    /\ stream.pc = "run"
    /\ \E g, h \in DOMAIN stream.phase :
         /\ g[1] = 1
         /\ stream.phase[g] = "done"
         /\ stream.phase[h] = "dkdv"

(*************** the programs of one forward kernel launch ******************)
\* The programs of the grid (cdiv(N_CTX, BLOCK_M), Z * H, 1), lines 1636-1701.
FwdGrid(N_CTX, BLOCK_M) ==
    (0..(cdiv(N_CTX, BLOCK_M) - 1)) \X (0..(NumBatchHeads - 1))

\* The stores of a program in units of CtxUnit rows: N_CTX and BLOCK_M are
\* multiples of CtxUnit, so every store covers whole units.
StoreUnits(BLOCK_M, tma, N_CTX, start_m, off_hz) ==
    {<<a[1], a[2] \div CtxUnit>> :
        a \in StoreSet(BLOCK_M, tma, N_CTX, start_m, off_hz)}

\* A forward kernel is launched with a configuration of its pool; its
\* programs have yet to run and M and Out are torch.empty.
InitGrid ==
    /\ InitImported
    /\ callers = <<>>
    /\ fwd = NoFwd
    /\ bwd = NoBwd
    /\ ws = NoWs
    /\ stream = NoStream
    /\ bench = NoBench
    /\ row = NoRow
    /\ desc_helper = NoDesc
    /\ \E variant \in Variants, n \in FwdNCtxValues :
         \E k \in 1..Len(Pool(variant)) :
           LET conf == Pool(variant)[k]
           IN grid = [pc |-> "run", N_CTX |-> n, BLOCK_M |-> conf.BLOCK_M,
                      ENABLE_TMA |-> conf.ENABLE_TMA,
                      pending |-> FwdGrid(n, conf.BLOCK_M), mem |-> {}]

gridRest == <<envVars, hostVars, callers, fwd, bwd, ws, stream, bench, row, desc_helper>>

\* One program runs to its end: the epilogue's stores overwrite the rows of
\* M and Out it addresses with the values this program computed; mem holds,
\* per unit of rows, the program whose values it has.
GridProgram(start_m, off_hz) ==
    /\ grid.pc = "run"
    /\ <<start_m, off_hz>> \in grid.pending
    /\ LET st == StoreUnits(grid.BLOCK_M, grid.ENABLE_TMA, grid.N_CTX, start_m, off_hz)
       IN grid' = [grid EXCEPT
                     !.pending = @ \ {<<start_m, off_hz>>},
                     !.mem = {e \in @ : e[1] \notin st}
                             \cup {<<a, <<start_m, off_hz>>>> : a \in st}]
    /\ UNCHANGED gridRest

NextGrid ==
    \E start_m \in 0..(MaxFwdCtxBlocks - 1), off_hz \in 0..(NumBatchHeads - 1) :
        GridProgram(start_m, off_hz)

SpecGrid == InitGrid /\ [][NextGrid]_vars

\* What M and Out hold when the programs run one after the other in grid
\* order: each address holds the value of the last program that stores it.
GridOrder(g) == g[2] * MaxFwdCtxBlocks + g[1]
SequentialMem(gr) ==
    LET G == FwdGrid(gr.N_CTX, gr.BLOCK_M)
        St(g) == StoreUnits(gr.BLOCK_M, gr.ENABLE_TMA, gr.N_CTX, g[1], g[2])
    IN UNION {{<<a, g>> : a \in {x \in St(g) :
                   \A h \in G : (x \in St(h)) => GridOrder(h) <= GridOrder(g)}} :
              g \in G}

\* C14: when every program of a launch has run, M and Out hold what the run
\* in grid order gives, whatever the order the programs ran in.
C14_ResultIgnoresProgramOrder ==
    (grid.pc = "run" /\ grid.pending = {}) => grid.mem = SequentialMem(grid)

(************** the accuracy check of the addmm operator ********************)
\* Candidates of one benchmark run, and the magnitude of the modelled outputs.
MaxCandidates == 3
MaxOutput == 2

Abs(x) == IF x < 0 THEN -x ELSE x

\* What a candidate returns: a value, in a tensor whose shape and dtype are
\* or are not those of the baseline's.
Outputs == [comparable : BOOLEAN, value : -MaxOutput..MaxOutput]

\* torch.testing.assert_close(output, baseline_output, atol=1e-5, rtol=0.5),
\* line 216: it returns when the two are comparable and |output - baseline|
\* <= atol + rtol * |baseline|, and raises otherwise. On integers the bound is
\* 2 * |output - baseline| <= |baseline|, atol being below one unit.
AssertCloseReturns(output, baseline_output) ==
    /\ output.comparable
    /\ 2 * Abs(output.value - baseline_output) <= Abs(baseline_output)

\* Variant of GetAccuracy: no except clause, the assertion's exception leaves
\* the method.
GetAccuracy_noExcept(output, baseline_output) ==
    IF AssertCloseReturns(output, baseline_output)
    THEN [raised |-> FALSE, value |-> TRUE]
    ELSE [raised |-> TRUE, value |-> FALSE]

\* Operator._get_accuracy, lines 211-220, on the outputs of fn() and
\* baseline_fn(): accuracy = True; an exception of assert_close sets it False;
\* the finally clause returns it.
GetAccuracy(output, baseline_output) ==
    [raised |-> FALSE, value |-> AssertCloseReturns(output, baseline_output)]

\* A benchmark run over some candidates, each with the output its fn() will
\* return and the baseline's output for the same input.
InitBench ==
    /\ InitImported
    /\ callers = <<>>
    /\ fwd = NoFwd
    /\ bwd = NoBwd
    /\ ws = NoWs
    /\ stream = NoStream
    /\ grid = NoGrid
    /\ row = NoRow
    /\ desc_helper = NoDesc
    /\ \E n \in 1..MaxCandidates :
         \E outs \in [1..n -> Outputs], base \in -MaxOutput..MaxOutput :
           bench = [pc |-> "run", outputs |-> outs, baseline |-> base,
                    flags |-> <<>>, raised |-> FALSE]

benchRest == <<envVars, hostVars, callers, fwd, bwd, ws, stream, grid, row, desc_helper>>

\* The harness evaluates the next candidate and records the flag that
\* _get_accuracy returns; an exception out of _get_accuracy would end the run.
BenchCandidate ==
    /\ bench.pc = "run"
    /\ Len(bench.flags) < Len(bench.outputs)
    /\ LET r == GetAccuracy(bench.outputs[Len(bench.flags) + 1], bench.baseline)
       IN bench' = IF r.raised
                   THEN [bench EXCEPT !.pc = "aborted", !.raised = TRUE]
                   ELSE [bench EXCEPT !.flags = Append(@, r.value)]
    /\ UNCHANGED benchRest

\* Every candidate is evaluated: the run ends.
BenchDone ==
    /\ bench.pc = "run"
    /\ Len(bench.flags) = Len(bench.outputs)
    /\ bench' = [bench EXCEPT !.pc = "done"]
    /\ UNCHANGED benchRest

NextBench == BenchCandidate \/ BenchDone

SpecBench == InitBench /\ [][NextBench]_vars

\* C16: _get_accuracy never raises; the flag of every candidate evaluated is
\* False when its output deviates from the baseline beyond the tolerance and
\* True when it is within it; the run is never aborted, and when it ends every
\* candidate has been evaluated.
C16_AccuracyFlagNeverAborts ==
    bench.pc # "none" =>
        /\ ~bench.raised
        /\ bench.pc # "aborted"
        /\ \A i \in 1..Len(bench.flags) :
             bench.flags[i] =
                (/\ bench.outputs[i].comparable
                 /\ 2 * Abs(bench.outputs[i].value - bench.baseline)
                        <= Abs(bench.baseline))
        /\ bench.pc = "done" => Len(bench.flags) = Len(bench.outputs)

\* A run has ended in which the first candidate failed the accuracy check and
\* a later one passed it.
C16_Witness ==
    /\ bench.pc = "done"
    /\ Len(bench.flags) = MaxCandidates
    /\ ~bench.flags[1]
    /\ bench.flags[MaxCandidates]

(***************** the running softmax of one query row *********************)
\* Key tiles of one row, BLOCK_M / BLOCK_N, key positions of a tile, and the
\* magnitudes of the raw logits q.k and of the entries of v.
MaxTiles == 3
MaxDiagTiles == 2
TileWidth == 2
MaxLogit == 1
MaxValue == 1

\* The addend of a masked position, line 175, and the least power of two a
\* float32 represents: tl.math.exp2 returns zero below it (line 181).
MaskPenalty == 1000000
Float32MinExp == -149

\* float("-inf"), line 600: a value below every logit, masked or not.
NegInf == -(2 * MaskPenalty)

\* float32 values are held in units of 2^-FracBits: every value the loop
\* computes from integer logits is a multiple of that unit and is held exactly.
FracBits == MaxLogit
One == 2 ^ FracBits

\* The sign of qk_scale = sm_scale * 1.44269504 (lines 604-605); forward puts
\* no condition on sm_scale.
Scales == {-1, 1}

Max(a, b) == IF a >= b THEN a ELSE b

RECURSIVE SumSeq(_)
SumSeq(q) == IF q = <<>> THEN 0 ELSE Head(q) + SumSeq(Tail(q))

\* tl.max(qk, 1) for one row; NegInf for no element.
RECURSIVE MaxSeq(_)
MaxSeq(q) == IF q = <<>> THEN NegInf ELSE Max(Head(q), MaxSeq(Tail(q)))

\* tl.math.exp2(d), lines 181 and 184.
Exp2(d) == IF d < Float32MinExp THEN 0 ELSE 2 ^ (FracBits + d)

\* The float32 product a * b.
Mul(a, b) == (a * b) \div One

\* p.to(tl.bfloat16), line 210: round to nearest even on 8 significant bits.
RECURSIVE Ulp(_)
Ulp(x) == IF x < 256 THEN 1 ELSE 2 * Ulp(x \div 2)
ToBf16(x) ==
    LET u == Ulp(x)
        q == x \div u
        r == x % u
    IN IF 2 * r > u \/ (2 * r = u /\ q % 2 = 1) THEN (q + 1) * u ELSE q * u

\* Variant of InnerUpdate: the old accumulator is not rescaled by alpha.
InnerUpdate_noRescale(st, t, STAGE, qk_scale, offs_m, start_n) ==
    LET W == Len(t)
        masked == [c \in 1..W |-> STAGE = 2 /\ ~(offs_m >= start_n + (c - 1))]
        m_ij == IF STAGE = 2
                THEN Max(st.m_i, MaxSeq([c \in 1..W |->
                         t[c].qk * qk_scale
                           + (IF masked[c] THEN -MaskPenalty ELSE 0)]))
                ELSE Max(st.m_i, MaxSeq([c \in 1..W |-> t[c].qk]) * qk_scale)
        qk == [c \in 1..W |->
                 IF STAGE = 2
                 THEN t[c].qk * qk_scale
                        + (IF masked[c] THEN -MaskPenalty ELSE 0) - m_ij
                 ELSE t[c].qk * qk_scale - m_ij]
        pp == [c \in 1..W |-> Exp2(qk[c])]
        l_ij == SumSeq(pp)
        alpha == Exp2(st.m_i - m_ij)
    IN [m_i |-> m_ij,
        l_i |-> Mul(st.l_i, alpha) + l_ij,
        acc |-> st.acc + SumSeq([c \in 1..W |-> ToBf16(pp[c]) * t[c].v])]

\* One iteration of the loop of _attn_fwd_inner for one query row offs_m,
\* lines 172-214: t holds the raw logits q.k and the entries of v of the key
\* tile at start_n; st is (m_i, l_i, acc) before the iteration.
InnerUpdate(st, t, STAGE, qk_scale, offs_m, start_n) ==
    LET W == Len(t)
        masked == [c \in 1..W |-> STAGE = 2 /\ ~(offs_m >= start_n + (c - 1))]
        m_ij == IF STAGE = 2
                THEN Max(st.m_i, MaxSeq([c \in 1..W |->
                         t[c].qk * qk_scale
                           + (IF masked[c] THEN -MaskPenalty ELSE 0)]))
                ELSE Max(st.m_i, MaxSeq([c \in 1..W |-> t[c].qk]) * qk_scale)
        qk == [c \in 1..W |->
                 IF STAGE = 2
                 THEN t[c].qk * qk_scale
                        + (IF masked[c] THEN -MaskPenalty ELSE 0) - m_ij
                 ELSE t[c].qk * qk_scale - m_ij]
        pp == [c \in 1..W |-> Exp2(qk[c])]
        l_ij == SumSeq(pp)
        alpha == Exp2(st.m_i - m_ij)
    IN [m_i |-> m_ij,
        l_i |-> Mul(st.l_i, alpha) + l_ij,
        acc |-> Mul(st.acc, alpha)
                  + SumSeq([c \in 1..W |-> ToBf16(pp[c]) * t[c].v])]

Keys == [qk : 0..MaxLogit, v : 0..MaxValue]

\* The inner STAGE of the k-th of n tiles when the last d of them are the
\* diagonal block (causal), or 3 (non-causal): lines 619-677.
TileStage(causal, n, d, k) == IF ~causal THEN 3 ELSE IF k <= n - d THEN 1 ELSE 2

\* One query row of a program with BLOCK_N = TileWidth and BLOCK_M = d *
\* TileWidth: non-causal over n key tiles, or causal with n - d off-band tiles
\* and d diagonal ones; m_i, l_i, acc as lines 600-602 set them.
InitRowProgram ==
    \E n \in 1..MaxTiles, causal \in BOOLEAN, scale \in Scales :
      \E d \in 1..n :
        /\ (n - d) % d = 0
        /\ IF causal THEN d <= MaxDiagTiles ELSE d = n
        /\ \E i \in ((n - d) * TileWidth)..(n * TileWidth - 1),
              ts \in [1..n -> [1..TileWidth -> Keys]] :
             /\ ~causal => i = 0
             /\ row = [pc |-> "loop", causal |-> causal, offs_m |-> i,
                       qk_scale |-> scale, tiles |-> ts,
                       STAGE |-> [k \in 1..n |-> TileStage(causal, n, d, k)],
                       k |-> 0, m_i |-> NegInf, l_i |-> One, acc |-> 0,
                       ms |-> <<>>, divs |-> 0, stat |-> <<>>, o |-> <<>>,
                       M |-> <<>>, Out |-> <<>>]

\* The loop's arithmetic reads nothing of the environment: the module is
\* imported with ENABLE_COMPPIPE and PEEL_LAST_ITER unset.
InitOnline ==
    /\ InitImported
    /\ ~WITH_COMPPIPE
    /\ ~PEEL_LAST
    /\ callers = <<>>
    /\ fwd = NoFwd
    /\ bwd = NoBwd
    /\ ws = NoWs
    /\ stream = NoStream
    /\ grid = NoGrid
    /\ bench = NoBench
    /\ InitRowProgram
    /\ desc_helper = NoDesc

rowRest == <<envVars, hostVars, callers, fwd, bwd, ws, stream, grid, bench, desc_helper>>

\* Variant of RowFold: the accumulator is divided by l_i in every iteration.
RowFold_normalizing ==
    /\ row.pc = "loop"
    /\ row.k < Len(row.tiles)
    /\ LET r == InnerUpdate([m_i |-> row.m_i, l_i |-> row.l_i, acc |-> row.acc],
                            row.tiles[row.k + 1], row.STAGE[row.k + 1],
                            row.qk_scale, row.offs_m, row.k * TileWidth)
       IN row' = [row EXCEPT !.k = @ + 1, !.m_i = r.m_i, !.l_i = r.l_i,
                             !.acc = (r.acc * One) \div r.l_i,
                             !.divs = @ + 1, !.ms = Append(@, r.m_i)]
    /\ UNCHANGED rowRest

\* One iteration of the tile loop for the row.
RowFold ==
    /\ row.pc = "loop"
    /\ row.k < Len(row.tiles)
    /\ LET r == InnerUpdate([m_i |-> row.m_i, l_i |-> row.l_i, acc |-> row.acc],
                            row.tiles[row.k + 1], row.STAGE[row.k + 1],
                            row.qk_scale, row.offs_m, row.k * TileWidth)
       IN row' = [row EXCEPT !.k = @ + 1, !.m_i = r.m_i, !.l_i = r.l_i,
                             !.acc = r.acc, !.ms = Append(@, r.m_i)]
    /\ UNCHANGED rowRest

\* The loops are over (line 218 of the last call); the epilogue, lines 679-680:
\* m_i += log2(l_i), held as the pair of m_i and the l_i whose logarithm is
\* added, and acc = acc / l_i, held as numerator and denominator.
RowEpilogue ==
    /\ row.pc = "loop"
    /\ row.k = Len(row.tiles)
    /\ row' = [row EXCEPT !.pc = "store_m",
                          !.stat = <<[m |-> row.m_i, log2 |-> row.l_i]>>,
                          !.o = <<[num |-> row.acc, den |-> row.l_i]>>,
                          !.divs = @ + 1]
    /\ UNCHANGED rowRest

\* tl.store(m_ptrs, m_i), lines 681-682.
RowStoreM ==
    /\ row.pc = "store_m"
    /\ row' = [row EXCEPT !.pc = "store_o", !.M = row.stat]
    /\ UNCHANGED rowRest

\* The store of acc to Out, lines 683-690.
RowStoreOut ==
    /\ row.pc = "store_o"
    /\ row' = [row EXCEPT !.pc = "done", !.Out = row.o]
    /\ UNCHANGED rowRest

NextOnline == RowFold \/ RowEpilogue \/ RowStoreM \/ RowStoreOut

SpecOnline == InitOnline /\ [][NextOnline]_vars

\* The key positions folded into the row so far: those of the tiles folded,
\* without the positions the causal mask excludes.
FoldedKeys(r) ==
    {kc \in (1..r.k) \X (1..TileWidth) :
        r.STAGE[kc[1]] = 2 => r.offs_m >= (kc[1] - 1) * TileWidth + (kc[2] - 1)}

\* The scaled logit and the value entry of a folded key position.
Logit(r, kc) == r.tiles[kc[1]][kc[2]].qk * r.qk_scale
Value(r, kc) == r.tiles[kc[1]][kc[2]].v

RECURSIVE SumOver(_, _, _, _)
SumOver(r, S, m, weighted) ==
    IF S = {} THEN 0
    ELSE LET kc == CHOOSE x \in S : TRUE
         IN Exp2(Logit(r, kc) - m) * (IF weighted THEN Value(r, kc) ELSE 1)
              + SumOver(r, S \ {kc}, m, weighted)

TrueMax(r) ==
    IF FoldedKeys(r) = {} THEN NegInf
    ELSE CHOOSE m \in {Logit(r, kc) : kc \in FoldedKeys(r)} :
           \A kc \in FoldedKeys(r) : Logit(r, kc) <= m

\* The statement of C19 for the state of the row.
RunningMaxAndSum(r) ==
    /\ r.m_i = TrueMax(r)
    /\ r.l_i = SumOver(r, FoldedKeys(r), r.m_i, FALSE)
    /\ \A k \in 1..Len(r.ms) : r.ms[k] # NegInf
    /\ \A k \in 1..(Len(r.ms) - 1) : r.ms[k] <= r.ms[k + 1]

\* C19: at every point of the tile loop, before the first fold included, m_i
\* is the maximum scaled logit over the key positions folded so far, l_i is
\* the sum over them of 2^(logit - m_i), and m_i never decreased and was never
\* reset.
C19_RunningMaxAndSum ==
    row.pc # "none" => RunningMaxAndSum(row)

\* The same statement from the first fold on, for a positive sm_scale.
C19_HoldsFromFirstFoldPositiveScale ==
    (row.pc # "none" /\ row.k >= 1 /\ row.qk_scale > 0) => RunningMaxAndSum(row)

\* C20: after every fold, acc is the sum over the key positions folded so far
\* of 2^(logit - m_i) times the value entry, with m_i the running maximum the
\* loop holds, and l_i is the sum of the same weights.
C20_AccumulatorIsWeightedSum ==
    (row.pc # "none" /\ row.k >= 1) =>
        /\ row.acc = SumOver(row, FoldedKeys(row), row.m_i, TRUE)
        /\ row.l_i = SumOver(row, FoldedKeys(row), row.m_i, FALSE)

\* Two tiles are folded with a positive scale, the second raised the running
\* maximum and the first had put a non-zero value in the accumulator.
C20_Witness ==
    /\ row.pc # "none"
    /\ row.qk_scale > 0
    /\ row.k >= 2
    /\ row.ms[1] < row.ms[2]
    /\ \E c \in 1..TileWidth : row.tiles[1][c].v > 0
    /\ row.acc > 0

\* C21: the accumulator is divided by l_i never inside the tile loop and once
\* in the epilogue, after every tile is folded; the value stored to M is m_i +
\* log2(l_i) of the m_i and l_i at the end of the loop, the value stored to
\* Out is acc / l_i of the acc and l_i at the end of the loop, and nothing is
\* stored before the division.
C21_NormalizedOnceInEpilogue ==
    row.pc # "none" =>
        /\ row.pc = "loop" => row.divs = 0 /\ row.M = <<>> /\ row.Out = <<>>
        /\ row.pc # "loop" =>
              /\ row.divs = 1
              /\ row.k = Len(row.tiles)
              /\ row.stat = <<[m |-> row.m_i, log2 |-> row.l_i]>>
              /\ row.o = <<[num |-> row.acc, den |-> row.l_i]>>
        /\ row.M # <<>> => row.M = row.stat /\ row.divs = 1
        /\ row.Out # <<>> => row.Out = row.o /\ row.divs = 1 /\ row.M # <<>>
        /\ row.pc = "done" => row.M # <<>> /\ row.Out # <<>>

\* A row of several tiles is done: both stores are made.
C21_Witness ==
    /\ row.pc = "done"
    /\ row.k >= 2
    /\ row.M # <<>>
    /\ row.Out # <<>>
    /\ row.o[1].num > 0

(***************** the TMA descriptors of a call of forward ******************)
\* The order of the init_tma_descriptor calls, lines 1631-1634, and of the
\* get_tma_descriptor_kernel_param calls, lines 1703-1706.
InitOrder == <<"k", "v", "q", "o">>
ParamOrder == <<"q", "k", "v", "o">>
DescNames == {"q", "k", "v", "o"}

\* A descriptor the helper does not hold, and the torch.empty buffer that
\* init_tma_descriptor stores under a name, lines 63-72.
AbsentDesc == [state |-> "absent", block |-> <<0, 0>>, by |-> 0]
EmptyDesc == [state |-> "empty", block |-> <<0, 0>>, by |-> 0]

\* (block_dim1, block_dim0) of the fill_2d_tma_descriptor call of each name,
\* lines 1646-1693, for the META of a launch.
BlockDims(name, META, HEAD_DIM_Q, fp8) ==
    CASE name = "k" -> <<META.BLOCK_N, HEAD_DIM_Q>>
      [] name = "v" -> IF fp8 THEN <<HEAD_DIM_Q, META.BLOCK_N>>
                       ELSE <<META.BLOCK_N, HEAD_DIM_Q>>
      [] name \in {"q", "o"} ->
            <<META.BLOCK_M \div (IF META.ENABLE_WS THEN 2 ELSE 1), HEAD_DIM_Q>>

\* Variant of GridTmaFills: the early return of line 1637 is missing.
GridTmaFills_unconditional(descriptors, META, HEAD_DIM_Q, fp8, by) ==
    [name \in DescNames |->
        [state |-> "filled", block |-> BlockDims(name, META, HEAD_DIM_Q, fp8),
         by |-> by]]

\* The descriptors after grid_tma(META), lines 1636-1701: untouched when
\* META["ENABLE_TMA"] is False, all four filled otherwise.
GridTmaFills(descriptors, META, HEAD_DIM_Q, fp8, by) ==
    IF ~META.ENABLE_TMA THEN descriptors
    ELSE [name \in DescNames |->
            [state |-> "filled", block |-> BlockDims(name, META, HEAD_DIM_Q, fp8),
             by |-> by]]

\* The configurations the autotuner of a variant's kernel launches for one
\* call, as positions of its pool: the selected one alone (a pool of one, or a
\* cached key), or every candidate in turn and then the best; none for a
\* baseVariant the dispatch of lines 1711-1890 does not name.
LaunchQueues(variant) ==
    IF variant \notin Variants THEN {<<>>}
    ELSE LET n == Len(Pool(variant))
         IN IF n = 1 THEN {<<1>>}
            ELSE {<<b>> : b \in 1..n}
                 \cup {[k \in 1..(n + 1) |-> IF k <= n THEN k ELSE b] : b \in 1..n}

\* META of the launch at position i of the queue: the configuration's kwargs
\* and the ENABLE_WS argument of the kernel call.
Meta(d, i) ==
    LET conf == Pool(d.variant)[d.queue[i]]
    IN [BLOCK_M |-> conf.BLOCK_M, BLOCK_N |-> conf.BLOCK_N,
        ENABLE_TMA |-> conf.ENABLE_TMA, ENABLE_WS |-> EnableWS(d.variant)]

\* forward has passed its assertions and created the helper, line 1630.
\* compileFirst: whether the launcher of the installed Triton compiles a
\* kernel before it calls the grid function, or after.
InitDesc ==
    /\ InitImported
    /\ callers = <<>>
    /\ fwd = NoFwd
    /\ bwd = NoBwd
    /\ ws = NoWs
    /\ stream = NoStream
    /\ grid = NoGrid
    /\ bench = NoBench
    /\ row = NoRow
    /\ \E variant \in VariantChoices, hd \in {64, 128}, fp8 \in BOOLEAN,
          compileFirst \in BOOLEAN :
         \E queue \in LaunchQueues(variant) :
           desc_helper = [pc |-> "init", variant |-> variant, HEAD_DIM |-> hd,
                          fp8 |-> fp8, compileFirst |-> compileFirst,
                          queue |-> queue, i |-> 0,
                          descriptors |-> [name \in DescNames |-> AbsentDesc],
                          params |-> <<>>, log |-> <<>>]

descRest == <<envVars, hostVars, callers, fwd, bwd, ws, stream, grid, bench, row>>

\* The next init_tma_descriptor call of lines 1631-1634.
InitTmaDescriptor ==
    /\ desc_helper.pc = "init"
    /\ LET n == Len(desc_helper.log) + 1
           name == InitOrder[n]
       IN desc_helper' =
            [desc_helper EXCEPT !.descriptors[name] = EmptyDesc,
                                !.log = Append(@, [op |-> "init", name |-> name]),
                                !.pc = IF n = Len(InitOrder) THEN "params" ELSE "init"]
    /\ UNCHANGED descRest

\* The next get_tma_descriptor_kernel_param call of lines 1703-1706; its
\* assertion fails on a name the helper does not hold.
GetTmaDescriptorKernelParam ==
    /\ desc_helper.pc = "params"
    /\ LET n == Len(desc_helper.params) + 1
           name == ParamOrder[n]
       IN desc_helper' =
            IF desc_helper.descriptors[name].state = "absent"
            THEN [desc_helper EXCEPT !.pc = "KeyError"]
            ELSE [desc_helper EXCEPT
                    !.params = Append(@, name),
                    !.log = Append(@, [op |-> "param", name |-> name]),
                    !.pc = IF n < Len(ParamOrder) THEN "params"
                           ELSE IF desc_helper.queue = <<>> THEN "done"
                           ELSE "grid",
                    !.i = IF n < Len(ParamOrder) \/ desc_helper.queue = <<>>
                          THEN 0 ELSE 1]
    /\ UNCHANGED descRest

\* The launcher calls grid_tma with the META of the configuration it is about
\* to launch.
GridTma ==
    /\ desc_helper.pc = "grid"
    /\ desc_helper.compileFirst =>
          StaticAssertOk(Pool(desc_helper.variant)[desc_helper.queue[desc_helper.i]],
                         desc_helper.HEAD_DIM)
    /\ LET META == Meta(desc_helper, desc_helper.i)
           after == GridTmaFills(desc_helper.descriptors, META,
                                 desc_helper.HEAD_DIM, desc_helper.fp8,
                                 desc_helper.i)
       IN desc_helper' =
            [desc_helper EXCEPT
               !.descriptors = after,
               !.log = Append(@, [op |-> "grid", i |-> desc_helper.i,
                                  META |-> META,
                                  before |-> desc_helper.descriptors,
                                  after |-> after]),
               !.pc = "kernel"]
    /\ UNCHANGED descRest

\* The position after the launch at position i: the next of the queue, or the
\* end of forward.
AfterLaunch(d) ==
    [d EXCEPT !.pc = IF d.i = Len(d.queue) THEN "done" ELSE "grid",
              !.i = IF d.i = Len(d.queue) THEN d.i ELSE d.i + 1]

\* The kernel of the launch runs with the descriptors as they are.
KernelRun ==
    /\ desc_helper.pc = "kernel"
    /\ StaticAssertOk(Pool(desc_helper.variant)[desc_helper.queue[desc_helper.i]],
                      desc_helper.HEAD_DIM)
    /\ desc_helper' =
         [AfterLaunch(desc_helper) EXCEPT
            !.log = Append(@, [op |-> "run", i |-> desc_helper.i,
                               META |-> Meta(desc_helper, desc_helper.i),
                               descriptors |-> desc_helper.descriptors])]
    /\ UNCHANGED descRest

\* The kernel of the launch fails its static assertion: it does not run.
CompileFails ==
    /\ desc_helper.pc = (IF desc_helper.compileFirst THEN "grid" ELSE "kernel")
    /\ ~StaticAssertOk(Pool(desc_helper.variant)[desc_helper.queue[desc_helper.i]],
                       desc_helper.HEAD_DIM)
    /\ desc_helper' =
         IF desc_helper.i = Len(desc_helper.queue)
         THEN [desc_helper EXCEPT !.pc = "CompileTimeAssertionFailure"]
         ELSE AfterLaunch(desc_helper)
    /\ UNCHANGED descRest

NextDesc ==
    \/ InitTmaDescriptor
    \/ GetTmaDescriptorKernelParam
    \/ GridTma
    \/ KernelRun
    \/ CompileFails

SpecDesc == InitDesc /\ [][NextDesc]_vars

\* The events of the log with a given op.
Events(op) ==
    {j \in 1..Len(desc_helper.log) : desc_helper.log[j].op = op}

\* C30: each of the four descriptors is initialised before its kernel
\* parameter is obtained and before it is filled; a descriptor changes only in
\* a call of the grid function, which fills all four when the configuration
\* being launched has ENABLE_TMA, with block sizes taken from that
\* configuration's BLOCK_M and BLOCK_N, and changes none otherwise; a kernel
\* with ENABLE_TMA runs on descriptors that the grid call of its own launch
\* filled.
C30_DescriptorsInitThenFilledPerLaunch ==
    desc_helper.pc # "none" =>
      LET log == desc_helper.log
      IN /\ desc_helper.pc \notin {"KeyError"}
         /\ \A j \in Events("param") :
               \E h \in Events("init") : h < j /\ log[h].name = log[j].name
         /\ \A j \in Events("grid") :
               /\ \A name \in DescNames :
                     \E h \in Events("init") : h < j /\ log[h].name = name
               /\ ~log[j].META.ENABLE_TMA => log[j].after = log[j].before
               /\ log[j].META.ENABLE_TMA =>
                     \A name \in DescNames :
                        /\ log[j].after[name].state = "filled"
                        /\ log[j].after[name].by = log[j].i
                        /\ log[j].after[name].block[1] =
                              (IF name \in {"k", "v"} /\ ~(name = "v" /\ desc_helper.fp8)
                               THEN log[j].META.BLOCK_N
                               ELSE IF name = "v" THEN desc_helper.HEAD_DIM
                               ELSE log[j].META.BLOCK_M
                                      \div (IF log[j].META.ENABLE_WS THEN 2 ELSE 1))
                        /\ (name = "v" /\ desc_helper.fp8) =>
                              log[j].after[name].block[2] = log[j].META.BLOCK_N
         /\ \A j \in Events("run") :
               /\ j > 1 /\ log[j - 1].op = "grid" /\ log[j - 1].i = log[j].i
               /\ log[j].descriptors = log[j - 1].after
               /\ log[j].META.ENABLE_TMA =>
                     \A name \in DescNames :
                        /\ log[j].descriptors[name].state = "filled"
                        /\ log[j].descriptors[name].by = log[j].i
         /\ \A name \in DescNames :
               /\ desc_helper.descriptors[name].state = "filled" =>
                     \E j \in Events("grid") :
                        /\ log[j].META.ENABLE_TMA
                        /\ desc_helper.descriptors[name] = log[j].after[name]
               /\ desc_helper.descriptors[name].state = "absent" =>
                     \A j \in Events("init") \cup Events("param") :
                        log[j].name # name

\* A call of the TMA warp-specialized variant is over: its autotuner launched
\* every candidate and then the best one, each on descriptors filled for it,
\* with the q and o blocks halved.
C30_Witness ==
    /\ desc_helper.pc = "done"
    /\ desc_helper.variant = "tma_ws"
    /\ Len(desc_helper.queue) >= 3
    /\ Cardinality(Events("run")) = Len(desc_helper.queue)
    /\ desc_helper.descriptors["q"].state = "filled"
    /\ desc_helper.descriptors["q"].by = Len(desc_helper.queue)
    /\ desc_helper.descriptors["q"].block[1] = 64

====
